---- MODULE Spec2Model ----
(***************************************************************************)
(* Result aggregation engine of the Bangladesh Election Tracker.           *)
(*                                                                         *)
(* State: the Firestore `results` collection, the `summary/current`        *)
(* document, the `parties` collection, and the outcome of the last         *)
(* saveResult call.  Operations: saveResult (lib/firestore), which writes  *)
(* one result document and recomputes the summary, and the reset script.   *)
(* Pure functions (normalizeResult, calculateAllianceVotes,                *)
(* aggregateAllianceSeatCounts, ...) are operators.                        *)
(*                                                                         *)
(* A JavaScript object with string keys is a sequence of <<key, value>>    *)
(* pairs in insertion order; a constituency id is a sequence of            *)
(* one-character strings.                                                  *)
(***************************************************************************)
EXTENDS Integers, Sequences, FiniteSets, TLC

\* the Firestore collections and the outcome of the last saveResult call
VARIABLES results, summary, partyList, outcome

\* the admin panel: the selected constituency (<<>> when none) and its vote
\* form
VARIABLES activeId, voteInputs

\* saveResult calls in flight, each with its position between two awaits
VARIABLES calls

\* the useAuth hook (adminUser is <<>> or <<record>>), the Firebase Auth
\* session and the auth-state callbacks in flight
VARIABLES user, adminUser, loading, error, currentUser, callbacks

\* one subscribeToResult subscription of useConstituencyResult: its
\* state ("none", "open" after the call, "closed" after the returned
\* unsubscribe), the constituency id it was called with, the two snapshot
\* listeners (registered, and the snapshot last delivered: <<>> before the
\* first one), the listener the closure variable unsubscribe refers to, and
\* the hook's result state (<<>> or <<Result>>) and loading flag
VARIABLES subState, subId, listeners, unsubscribeRef, constituencyResult, resultLoading

subVars == <<subState, subId, listeners, unsubscribeRef, constituencyResult, resultLoading>>

\* the useResults hook: mounted or cleaned up ("none" before the mount),
\* the initial getResults fetch (its position and the Results it read), the
\* subscribeToResults listener, and the hook's results and loading state
VARIABLES feedState, fetchPc, fetchData, feedListener, resultsState, resultsLoading

feedVars == <<feedState, fetchPc, fetchData, feedListener, resultsState, resultsLoading>>

\* the news collection (a sequence of documents, the document id being the
\* position) and the createNews / updateNews calls in flight
VARIABLES news, newsCalls

newsVars == <<news, newsCalls>>

\* the in-memory parties cache of lib/firestore (parties is <<>> for null,
\* else <<list>>), Date.now(), the getParties calls awaiting getDocs, and
\* what the last getParties call returned (<<>> before the first, else
\* <<[parties, cached]>>, cached telling that Firestore was not read)
VARIABLES cache, now, partyReads, partiesReturned

cacheVars == <<cache, now, partyReads, partiesReturned>>

\* the state of the public site and of the news library
siteVars == <<subVars, feedVars, newsVars>>

authVars == <<user, adminUser, loading, error, currentUser, callbacks>>

storeVars == <<results, summary, partyList, outcome>>

vars == <<results, summary, partyList, outcome, activeId, voteInputs, calls,
          user, adminUser, loading, error, currentUser, callbacks,
          subState, subId, listeners, unsubscribeRef, constituencyResult, resultLoading,
          feedState, fetchPc, fetchData, feedListener, resultsState, resultsLoading,
          news, newsCalls, cache, now, partyReads, partiesReturned>>

\* JavaScript null / undefined
Null == "<null>"

\* getParties calls awaiting getDocs at one time
MaxReads == 1

\* periods of CACHE_DURATION the clock covers
MaxPeriods == 1

\* Firebase Auth before it has resolved the persisted session
Unresolved == "<unresolved>"

\* ------------------------------------------------------------------------
\* Bounds of the model
\* ------------------------------------------------------------------------

\* most raw keys in one submitted tally
MaxKeys == 2

\* largest vote count submitted for one key
MaxVote == 1

\* most saveResult calls made in one run of the concurrent specification
MaxCalls == 2

\* most auth-state callbacks suspended at an await at one time
MaxCallbacks == 2

\* ------------------------------------------------------------------------
\* Generic helpers (Array.prototype.reduce / sort / filter)
\* ------------------------------------------------------------------------

RECURSIVE SumSeq(_)
SumSeq(s) == IF s = <<>> THEN 0 ELSE Head(s) + SumSeq(Tail(s))

\* the values of an object, in key order
Values(obj) == [i \in 1..Len(obj) |-> obj[i][2]]

\* the keys of an object, in key order
Keys(obj) == [i \in 1..Len(obj) |-> obj[i][1]]

HasKey(obj, k) == \E i \in 1..Len(obj) : obj[i][1] = k

\* obj[k] || 0
Get0(obj, k) ==
  IF HasKey(obj, k)
  THEN obj[CHOOSE i \in 1..Len(obj) : obj[i][1] = k][2]
  ELSE 0

\* obj[k] = v : an existing key keeps its position, a new key is appended
Put(obj, k, v) ==
  IF HasKey(obj, k)
  THEN [i \in 1..Len(obj) |-> IF obj[i][1] = k THEN <<k, v>> ELSE obj[i]]
  ELSE Append(obj, <<k, v>>)

\* Array.prototype.sort(([, a], [, b]) => b - a) on the entries of an object:
\* stable, by votes descending
RECURSIVE insertByVotes(_, _)
insertByVotes(s, e) ==
  IF s = <<>> THEN <<e>>
  ELSE IF e[2] > Head(s)[2] THEN <<e>> \o s
  ELSE <<Head(s)>> \o insertByVotes(Tail(s), e)

RECURSIVE sortByVotes(_)
sortByVotes(s) ==
  IF s = <<>> THEN <<>>
  ELSE insertByVotes(sortByVotes(SubSeq(s, 1, Len(s) - 1)), s[Len(s)])

\* (a, b) => b.seats - a.seats || b.totalVotes - a.totalVotes
seatCountBefore(a, b) ==
  \/ a.seats > b.seats
  \/ a.seats = b.seats /\ a.totalVotes > b.totalVotes

RECURSIVE insertSeatCount(_, _)
insertSeatCount(s, e) ==
  IF s = <<>> THEN <<e>>
  ELSE IF seatCountBefore(e, Head(s)) THEN <<e>> \o s
  ELSE <<Head(s)>> \o insertSeatCount(Tail(s), e)

\* stable sort of a SeatCount list by seats, then totalVotes, descending
RECURSIVE sortSeatCounts(_)
sortSeatCounts(s) ==
  IF s = <<>> THEN <<>>
  ELSE insertSeatCount(sortSeatCounts(SubSeq(s, 1, Len(s) - 1)), s[Len(s)])

\* ------------------------------------------------------------------------
\* Reference data (data/parties)
\* ------------------------------------------------------------------------

\* the static party table, in display order
staticParties ==
  << [id |-> "al",          name |-> "Bangladesh Awami League"],
     [id |-> "bnp",         name |-> "Bangladesh Nationalist Party"],
     [id |-> "jamaat",      name |-> "Bangladesh Jamaat-e-Islami"],
     [id |-> "independent", name |-> "Independent"],
     [id |-> "other",       name |-> "Others"] >>

\* Party.allianceId: "bnp", "jamaat", or null for the others
allianceIdOf(id) ==
  CASE id = "bnp" -> "bnp"
    [] id = "jamaat" -> "jamaat"
    [] OTHER -> Null

\* Party.isIndependent
isIndependentOf(id) == id = "independent"

parties ==
  [i \in 1..Len(staticParties) |->
     [ id |-> staticParties[i].id,
       name |-> staticParties[i].name,
       allianceId |-> allianceIdOf(staticParties[i].id),
       isIndependent |-> isIndependentOf(staticParties[i].id) ]]

\* the alliances object, in key order
alliances == <<"bnp", "jamaat", "others">>

\* parties.find(p => p.id === partyId): <<party>> or <<>> for undefined
getPartyById(partyId) ==
  LET m == SelectSeq(parties, LAMBDA p : p.id = partyId)
  IN  IF m = <<>> THEN <<>> ELSE <<m[1]>>

\* String.prototype.toLowerCase on the party keys of the model
toLowerCase(s) ==
  CASE s = "BNP" -> "bnp"
    [] s = "Bangladesh Nationalist Party" -> "bangladesh nationalist party"
    [] s = "Bangladesh Awami League" -> "bangladesh awami league"
    [] s = "Bangladesh Jamaat-e-Islami" -> "bangladesh jamaat-e-islami"
    [] s = "Independent" -> "independent"
    [] s = "Others" -> "others"
    [] s = "Gono Odhikar" -> "gono odhikar"
    [] OTHER -> s

\* raw tally key -> canonical party id; unrecognised keys go to "other"
normalizePartyKey(raw) ==
  LET l == toLowerCase(raw)
      byId == SelectSeq(parties, LAMBDA p : toLowerCase(p.id) = l)
      byName == SelectSeq(parties, LAMBDA p : toLowerCase(p.name) = l)
  IN  IF byId # <<>> THEN byId[1].id
      ELSE IF byName # <<>> THEN byName[1].id
      ELSE "other"

\* ------------------------------------------------------------------------
\* Alliance helpers (lib/alliances)
\* ------------------------------------------------------------------------

RECURSIVE calculateAllianceVotesFrom(_, _)
calculateAllianceVotesFrom(partyVotes, acc) ==
  IF partyVotes = <<>> THEN acc
  ELSE LET partyId == Head(partyVotes)[1]
           votes == Head(partyVotes)[2]
           party == getPartyById(partyId)
           next ==
             IF party = <<>> THEN [acc EXCEPT !.others = @ + votes]
             ELSE IF party[1].allianceId = "bnp" THEN [acc EXCEPT !.bnp = @ + votes]
             ELSE IF party[1].allianceId = "jamaat" THEN [acc EXCEPT !.jamaat = @ + votes]
             ELSE [acc EXCEPT !.others = @ + votes]
       IN  calculateAllianceVotesFrom(Tail(partyVotes), next)

\* variant: votes of parties outside both alliances are left out
calculateAllianceVotesNoOthers(partyVotes) ==
  [calculateAllianceVotesFrom(partyVotes, [bnp |-> 0, jamaat |-> 0, others |-> 0])
     EXCEPT !.others = 0]

calculateAllianceVotes(partyVotes) ==
  calculateAllianceVotesFrom(partyVotes, [bnp |-> 0, jamaat |-> 0, others |-> 0])

\* variant: every winner is put in the catch-all alliance, no party lookup
getWinnerAllianceIdNoLookup(winnerPartyId) ==
  IF winnerPartyId = Null THEN Null ELSE "others"

getWinnerAllianceId(winnerPartyId) ==
  IF winnerPartyId = Null THEN Null
  ELSE LET party == getPartyById(winnerPartyId)
       IN  IF party = <<>> THEN "others"
           ELSE IF party[1].allianceId = "bnp" THEN "bnp"
           ELSE IF party[1].allianceId = "jamaat" THEN "jamaat"
           ELSE "others"

\* ------------------------------------------------------------------------
\* Constituency ids (lib/firestore)
\* ------------------------------------------------------------------------

toLowerChar(c) ==
  CASE c = "C" -> "c"
    [] c = "D" -> "d"
    [] OTHER -> c

lowerId(id) == [i \in 1..Len(id) |-> toLowerChar(id[i])]

\* first replace: apostrophes and backquotes are removed
Apostrophes == {"'"}

removeApostrophes(id) == SelectSeq(id, LAMBDA c : c \notin Apostrophes)

\* second replace: every run of whitespace becomes one hyphen
RECURSIVE spacesToHyphen(_)
spacesToHyphen(id) ==
  IF id = <<>> THEN <<>>
  ELSE IF Head(id) = " "
       THEN IF Len(id) > 1 /\ id[2] = " "
            THEN spacesToHyphen(Tail(id))
            ELSE <<"-">> \o spacesToHyphen(Tail(id))
       ELSE <<Head(id)>> \o spacesToHyphen(Tail(id))

\* third replace: every run of hyphens becomes one hyphen
RECURSIVE collapseHyphens(_)
collapseHyphens(id) ==
  IF id = <<>> THEN <<>>
  ELSE IF Head(id) = "-" /\ Len(id) > 1 /\ id[2] = "-"
       THEN collapseHyphens(Tail(id))
       ELSE <<Head(id)>> \o collapseHyphens(Tail(id))

\* .trim()
RECURSIVE trimStart(_)
trimStart(id) ==
  IF id # <<>> /\ Head(id) = " " THEN trimStart(Tail(id)) ELSE id

RECURSIVE trimEnd(_)
trimEnd(id) ==
  IF id # <<>> /\ id[Len(id)] = " " THEN trimEnd(SubSeq(id, 1, Len(id) - 1)) ELSE id

normalizeConstituencyId(id) ==
  trimEnd(trimStart(collapseHyphens(spacesToHyphen(removeApostrophes(lowerId(id))))))

\* the percent escapes the model's ids use
HexDecode(h) ==
  CASE h = <<"2", "0">> -> " "
    [] h = <<"2", "7">> -> "'"
    [] OTHER -> Null

\* decodeURIComponent throws URIError on a malformed escape
RECURSIVE uriMalformed(_)
uriMalformed(id) ==
  IF id = <<>> THEN FALSE
  ELSE IF Head(id) = "%"
       THEN IF Len(id) < 3 THEN TRUE
            ELSE IF HexDecode(<<id[2], id[3]>>) = Null THEN TRUE
            ELSE uriMalformed(SubSeq(id, 4, Len(id)))
       ELSE uriMalformed(Tail(id))

RECURSIVE decodeURIComponent(_)
decodeURIComponent(id) ==
  IF id = <<>> THEN <<>>
  ELSE IF Head(id) = "%"
       THEN <<HexDecode(<<id[2], id[3]>>)>> \o decodeURIComponent(SubSeq(id, 4, Len(id)))
       ELSE <<Head(id)>> \o decodeURIComponent(Tail(id))

\* ------------------------------------------------------------------------
\* Numbers: a percentage is the exact fraction <<numerator, denominator>>
\* ------------------------------------------------------------------------

RECURSIVE GCD(_, _)
GCD(a, b) == IF b = 0 THEN a ELSE GCD(b, a % b)

Abs(n) == IF n < 0 THEN 0 - n ELSE n

Zero == <<0, 1>>

\* (part / total) * 100 in lowest terms with a positive denominator; a
\* division by zero gives denominator 0: <<0, 0>> is NaN, <<1, 0>> and
\* <<-1, 0>> are the infinities
Percent(part, total) ==
  IF total = 0
  THEN <<IF part > 0 THEN 1 ELSE IF part < 0 THEN -1 ELSE 0, 0>>
  ELSE IF part = 0 THEN Zero
  ELSE LET n == IF total < 0 THEN 0 - part * 100 ELSE part * 100
           d == Abs(total)
           g == GCD(Abs(n), d)
       IN  <<n \div g, d \div g>>

\* lib/utils: if (total === 0) return 0; return (part / total) * 100
calculatePercentage(part, total) ==
  IF total = 0 THEN Zero ELSE Percent(part, total)

\* ------------------------------------------------------------------------
\* Result documents (lib/firestore)
\* ------------------------------------------------------------------------

\* variant: a later raw key replaces the count of an earlier one of the same
\* party
RECURSIVE normalizePartyVotesFromLast(_, _)
normalizePartyVotesFromLast(raw, acc) ==
  IF raw = <<>> THEN acc
  ELSE LET normalizedKey == normalizePartyKey(Head(raw)[1])
       IN  normalizePartyVotesFromLast(Tail(raw),
             Put(acc, normalizedKey, Head(raw)[2]))

\* the key-normalising loop shared by normalizeResult and saveResult:
\* partyVotes[normalizedKey] = (partyVotes[normalizedKey] || 0) + votes
RECURSIVE normalizePartyVotesFrom(_, _)
normalizePartyVotesFrom(raw, acc) ==
  IF raw = <<>> THEN acc
  ELSE LET normalizedKey == normalizePartyKey(Head(raw)[1])
       IN  normalizePartyVotesFrom(Tail(raw),
             Put(acc, normalizedKey, Get0(acc, normalizedKey) + Head(raw)[2]))

normalizePartyVotes(raw) == normalizePartyVotesFrom(raw, <<>>)

\* variant: the stored alliance fields are passed through as they are
normalizeResultTrusting(raw, docId) ==
  LET partyVotes == normalizePartyVotes(raw.partyVotes)
      winnerPartyId ==
        IF raw.winnerPartyId # Null THEN normalizePartyKey(raw.winnerPartyId) ELSE Null
      status == IF raw.status = Null THEN "pending" ELSE raw.status
  IN  [ id |-> docId,
        constituencyId |-> IF raw.constituencyId = <<>> THEN docId ELSE raw.constituencyId,
        partyVotes |-> partyVotes,
        allianceVotes |-> raw.allianceVotes,
        winnerPartyId |-> winnerPartyId,
        winnerAllianceId |-> raw.winnerAllianceId,
        totalVotes |-> raw.totalVotes,
        margin |-> raw.margin,
        marginPercentage |-> raw.marginPercentage,
        status |-> status ]

\* a Result read from a stored document
normalizeResult(raw, docId) ==
  LET partyVotes == normalizePartyVotes(raw.partyVotes)
      winnerPartyId ==
        IF raw.winnerPartyId # Null THEN normalizePartyKey(raw.winnerPartyId) ELSE Null
      status == IF raw.status = Null THEN "pending" ELSE raw.status
      winnerAllianceId ==
        IF winnerPartyId # Null /\ status = "completed"
        THEN getWinnerAllianceId(winnerPartyId)
        ELSE Null
  IN  [ id |-> docId,
        constituencyId |-> IF raw.constituencyId = <<>> THEN docId ELSE raw.constituencyId,
        partyVotes |-> partyVotes,
        allianceVotes |-> calculateAllianceVotes(partyVotes),
        winnerPartyId |-> winnerPartyId,
        winnerAllianceId |-> winnerAllianceId,
        totalVotes |-> raw.totalVotes,
        margin |-> raw.margin,
        marginPercentage |-> raw.marginPercentage,
        status |-> status ]

\* variant: the margin percentage is divided out without the totalVotes > 0
\* guard
resultDocUnguarded(actualDocId, rawPartyVotes, status) ==
  LET partyVotes == normalizePartyVotes(rawPartyVotes)
      totalVotes == SumSeq(Values(partyVotes))
      sortedParties == sortByVotes(partyVotes)
      winnerId == IF Len(sortedParties) >= 1 THEN sortedParties[1][1] ELSE Null
      winnerVotes == IF Len(sortedParties) >= 1 THEN sortedParties[1][2] ELSE 0
      runnerUpVotes == IF Len(sortedParties) >= 2 THEN sortedParties[2][2] ELSE 0
      margin == winnerVotes - runnerUpVotes
  IN  [ constituencyId |-> actualDocId,
        partyVotes |-> partyVotes,
        allianceVotes |-> calculateAllianceVotes(partyVotes),
        winnerPartyId |-> IF status = "completed" THEN winnerId ELSE Null,
        winnerAllianceId |-> IF status = "completed" THEN getWinnerAllianceId(winnerId) ELSE Null,
        totalVotes |-> totalVotes,
        margin |-> margin,
        marginPercentage |-> Percent(margin, totalVotes),
        status |-> status ]

\* the document saveResult builds for a payload and the document id it chose
resultDoc(actualDocId, rawPartyVotes, status) ==
  LET partyVotes == normalizePartyVotes(rawPartyVotes)
      totalVotes == SumSeq(Values(partyVotes))
      sortedParties == sortByVotes(partyVotes)
      winnerId == IF Len(sortedParties) >= 1 THEN sortedParties[1][1] ELSE Null
      winnerVotes == IF Len(sortedParties) >= 1 THEN sortedParties[1][2] ELSE 0
      runnerUpVotes == IF Len(sortedParties) >= 2 THEN sortedParties[2][2] ELSE 0
      margin == winnerVotes - runnerUpVotes
      marginPercentage == IF totalVotes > 0 THEN Percent(margin, totalVotes) ELSE Zero
  IN  [ constituencyId |-> actualDocId,
        partyVotes |-> partyVotes,
        allianceVotes |-> calculateAllianceVotes(partyVotes),
        winnerPartyId |-> IF status = "completed" THEN winnerId ELSE Null,
        winnerAllianceId |-> IF status = "completed" THEN getWinnerAllianceId(winnerId) ELSE Null,
        totalVotes |-> totalVotes,
        margin |-> margin,
        marginPercentage |-> marginPercentage,
        status |-> status ]

\* the document the earlier saveResult (no key normalisation, turnout kept
\* per constituency) wrote; such documents are the legacy data the current
\* code still reads
legacyResultDoc(constituencyId, partyVotes, status) ==
  LET totalVotes == SumSeq(Values(partyVotes))
      sortedParties == sortByVotes(partyVotes)
      winnerId == IF Len(sortedParties) >= 1 THEN sortedParties[1][1] ELSE Null
      winnerVotes == IF Len(sortedParties) >= 1 THEN sortedParties[1][2] ELSE 0
      runnerUpVotes == IF Len(sortedParties) >= 2 THEN sortedParties[2][2] ELSE 0
      margin == winnerVotes - runnerUpVotes
      marginPercentage == IF totalVotes > 0 THEN Percent(margin, totalVotes) ELSE Zero
  IN  [ constituencyId |-> constituencyId,
        partyVotes |-> partyVotes,
        allianceVotes |-> calculateAllianceVotes(partyVotes),
        winnerPartyId |-> IF status = "completed" THEN winnerId ELSE Null,
        winnerAllianceId |-> IF status = "completed" THEN getWinnerAllianceId(winnerId) ELSE Null,
        totalVotes |-> totalVotes,
        turnoutPercentage |-> Zero,
        margin |-> margin,
        marginPercentage |-> marginPercentage,
        status |-> status ]

\* ------------------------------------------------------------------------
\* Reading the results collection
\* ------------------------------------------------------------------------

\* code unit of a character of a document id
CharCode(c) ==
  CASE c = " " -> 32 [] c = "%" -> 37 [] c = "'" -> 39 [] c = "-" -> 45
    [] c = "0" -> 48 [] c = "1" -> 49 [] c = "2" -> 50 [] c = "7" -> 55
    [] c = "C" -> 67 [] c = "D" -> 68 [] c = "c" -> 99 [] c = "d" -> 100

\* document ids are returned in ascending order of their characters
RECURSIVE idLess(_, _)
idLess(a, b) ==
  IF b = <<>> THEN FALSE
  ELSE IF a = <<>> THEN TRUE
  ELSE IF CharCode(Head(a)) # CharCode(Head(b)) THEN CharCode(Head(a)) < CharCode(Head(b))
  ELSE idLess(Tail(a), Tail(b))

RECURSIVE sortedIds(_)
sortedIds(ids) ==
  IF ids = {} THEN <<>>
  ELSE LET first == CHOOSE a \in ids : \A b \in ids \ {a} : idLess(a, b)
       IN  <<first>> \o sortedIds(ids \ {first})

\* snapshot.docs.map(d => normalizeResult(d.data(), d.id))
getResults(store) ==
  LET ids == sortedIds(DOMAIN store)
  IN  [i \in 1..Len(ids) |-> normalizeResult(store[ids[i]], ids[i])]

\* the normalized id first, then the original format: <<result>> or <<>>
getResultByConstituency(store, constituencyId) ==
  LET normalizedId == normalizeConstituencyId(constituencyId)
      originalFormat == lowerId(decodeURIComponent(constituencyId))
  IN  IF normalizedId \in DOMAIN store
      THEN <<normalizeResult(store[normalizedId], normalizedId)>>
      ELSE IF originalFormat \in DOMAIN store
      THEN <<normalizeResult(store[originalFormat], originalFormat)>>
      ELSE <<>>

\* ------------------------------------------------------------------------
\* Election summary (lib/firestore, updateElectionSummary)
\* ------------------------------------------------------------------------

TOTAL_REGISTERED_VOTERS == 127711414

\* seatCounts[party.id] = { partyId, seats: 0, leadingSeats: 0, ... }
RECURSIVE initSeatCounts(_, _)
initSeatCounts(plist, acc) ==
  IF plist = <<>> THEN acc
  ELSE initSeatCounts(Tail(plist),
         Put(acc, Head(plist),
             [partyId |-> Head(plist), seats |-> 0, leadingSeats |-> 0,
              totalVotes |-> 0, votePercentage |-> Zero]))

\* the record stored under key k
At(obj, k) == obj[CHOOSE i \in 1..Len(obj) : obj[i][1] = k][2]

\* if (seatCounts[partyId]) seatCounts[partyId].totalVotes += votes
RECURSIVE addPartyVotes(_, _)
addPartyVotes(seatCounts, partyVotes) ==
  IF partyVotes = <<>> THEN seatCounts
  ELSE LET partyId == Head(partyVotes)[1]
           votes == Head(partyVotes)[2]
           next ==
             IF HasKey(seatCounts, partyId)
             THEN Put(seatCounts, partyId,
                      [At(seatCounts, partyId) EXCEPT !.totalVotes = @ + votes])
             ELSE seatCounts
       IN  addPartyVotes(next, Tail(partyVotes))

\* variant: only declared seats are counted, a partial Result adds no lead
countSeatNoLead(seatCounts, result) ==
  IF result.status = "completed" /\ result.winnerPartyId # Null
     /\ HasKey(seatCounts, result.winnerPartyId)
  THEN Put(seatCounts, result.winnerPartyId,
           [At(seatCounts, result.winnerPartyId) EXCEPT !.seats = @ + 1])
  ELSE seatCounts

\* the seat or lead one Result adds
countSeat(seatCounts, result) ==
  IF result.status = "completed" /\ result.winnerPartyId # Null
  THEN IF HasKey(seatCounts, result.winnerPartyId)
       THEN Put(seatCounts, result.winnerPartyId,
                [At(seatCounts, result.winnerPartyId) EXCEPT !.seats = @ + 1])
       ELSE seatCounts
  ELSE IF result.status = "partial"
  THEN LET sorted == sortByVotes(result.partyVotes)
       IN  IF sorted # <<>> /\ HasKey(seatCounts, sorted[1][1])
           THEN Put(seatCounts, sorted[1][1],
                    [At(seatCounts, sorted[1][1]) EXCEPT !.leadingSeats = @ + 1])
           ELSE seatCounts
  ELSE seatCounts

\* variant: every completed result is a declared seat
countsAsDeclaredCompleted(result) ==
  result.status = "completed"

\* declaredSeats++ sits inside the completed-with-winner branch
countsAsDeclared(result) ==
  result.status = "completed" /\ result.winnerPartyId # Null

\* results.forEach(result => ...)
RECURSIVE processResults(_, _)
processResults(rs, acc) ==
  IF rs = <<>> THEN acc
  ELSE LET result == Head(rs)
       IN  processResults(Tail(rs),
             [ seatCounts |-> countSeat(addPartyVotes(acc.seatCounts, result.partyVotes), result),
               totalVotesCast |-> acc.totalVotesCast + result.totalVotes,
               declaredSeats |-> acc.declaredSeats + (IF countsAsDeclared(result) THEN 1 ELSE 0) ])

\* sc => sc.seats > 0 || sc.leadingSeats > 0 || sc.totalVotes > 0
hasActivity(sc) == sc.seats > 0 \/ sc.leadingSeats > 0 \/ sc.totalVotes > 0

\* the summary document computed from the results and the party list
updateElectionSummary(rs, plist) ==
  LET acc == processResults(rs,
               [ seatCounts |-> initSeatCounts(plist, <<>>),
                 totalVotesCast |-> 0, declaredSeats |-> 0 ])
      withPct == [i \in 1..Len(acc.seatCounts) |->
                    [acc.seatCounts[i][2] EXCEPT !.votePercentage =
                       IF acc.totalVotesCast > 0
                       THEN Percent(acc.seatCounts[i][2].totalVotes, acc.totalVotesCast)
                       ELSE Zero]]
  IN  [ totalSeats |-> 300,
        declaredSeats |-> acc.declaredSeats,
        requiredMajority |-> 151,
        partySeatCounts |-> sortSeatCounts(SelectSeq(withPct, hasActivity)),
        totalVotesCast |-> acc.totalVotesCast,
        totalRegisteredVoters |-> TOTAL_REGISTERED_VOTERS,
        nationalTurnout |->
          IF TOTAL_REGISTERED_VOTERS > 0
          THEN Percent(acc.totalVotesCast, TOTAL_REGISTERED_VOTERS)
          ELSE Zero ]

\* the summary document the reset script writes
emptySummary ==
  [ totalSeats |-> 300, declaredSeats |-> 0, requiredMajority |-> 151,
    partySeatCounts |-> <<>>, totalVotesCast |-> 0,
    totalRegisteredVoters |-> TOTAL_REGISTERED_VOTERS, nationalTurnout |-> Zero ]

\* ------------------------------------------------------------------------
\* Alliance seat counts (lib/alliances, aggregateAllianceSeatCounts)
\* ------------------------------------------------------------------------

\* party.allianceId === 'bnp' ? 'bnp' : party.allianceId === 'jamaat' ? 'jamaat' : 'others'
partyAlliance(party) ==
  IF party.allianceId = "bnp" THEN "bnp"
  ELSE IF party.allianceId = "jamaat" THEN "jamaat"
  ELSE "others"

emptyAllianceData ==
  [a \in {"bnp", "jamaat", "others"} |-> [seats |-> <<>>, leadingSeats |-> <<>>, votes |-> <<>>]]

\* the votes loop of one Result: parties unknown to the static table are skipped
RECURSIVE aggregateVotes(_, _)
aggregateVotes(data, partyVotes) ==
  IF partyVotes = <<>> THEN data
  ELSE LET pId == Head(partyVotes)[1]
           votes == Head(partyVotes)[2]
           party == getPartyById(pId)
           next ==
             IF party = <<>> THEN data
             ELSE LET pAllianceId == partyAlliance(party[1])
                  IN  [data EXCEPT ![pAllianceId].votes =
                         Put(@, pId, Get0(@, pId) + votes)]
       IN  aggregateVotes(next, Tail(partyVotes))

\* the body of results.forEach: a Result without winnerPartyId returns at once
aggregateResult(data, result) ==
  LET allianceId == IF result.winnerAllianceId # Null THEN result.winnerAllianceId ELSE "others"
      partyId == result.winnerPartyId
      seated ==
        IF result.status = "completed"
        THEN [data EXCEPT ![allianceId].seats = Put(@, partyId, Get0(@, partyId) + 1)]
        ELSE IF result.status = "partial"
        THEN [data EXCEPT ![allianceId].leadingSeats = Put(@, partyId, Get0(@, partyId) + 1)]
        ELSE data
  IN  IF partyId = Null THEN data
      ELSE aggregateVotes(seated, result.partyVotes)

RECURSIVE aggregateResults(_, _)
aggregateResults(data, rs) ==
  IF rs = <<>> THEN data
  ELSE aggregateResults(aggregateResult(data, Head(rs)), Tail(rs))

\* new Set([...]) keeps the first occurrence of every element
RECURSIVE dedupe(_, _)
dedupe(s, acc) ==
  IF s = <<>> THEN acc
  ELSE dedupe(Tail(s),
              IF \E i \in 1..Len(acc) : acc[i] = Head(s) THEN acc ELSE Append(acc, Head(s)))

\* partyBreakdowns.sort((a, b) => b.seats - a.seats), stable
RECURSIVE insertBySeats(_, _)
insertBySeats(s, e) ==
  IF s = <<>> THEN <<e>>
  ELSE IF e.seats > Head(s).seats THEN <<e>> \o s
  ELSE <<Head(s)>> \o insertBySeats(Tail(s), e)

RECURSIVE sortBySeats(_)
sortBySeats(s) ==
  IF s = <<>> THEN <<>>
  ELSE insertBySeats(sortBySeats(SubSeq(s, 1, Len(s) - 1)), s[Len(s)])

\* variant: the breakdown lists the parties that hold a seat only
allianceSeatCountSeatedOnly(allianceId, data, totalVotesCast) ==
  LET allPartyIds == dedupe(Keys(data.seats), <<>>)
      known == SelectSeq(allPartyIds, LAMBDA partyId : getPartyById(partyId) # <<>>)
      partyBreakdowns ==
        [i \in 1..Len(known) |->
           [ partyId |-> known[i],
             seats |-> Get0(data.seats, known[i]),
             leadingSeats |-> Get0(data.leadingSeats, known[i]),
             totalVotes |-> Get0(data.votes, known[i]),
             votePercentage |->
               IF totalVotesCast > 0
               THEN Percent(Get0(data.votes, known[i]), totalVotesCast)
               ELSE Zero,
             allianceId |-> getPartyById(known[i])[1].allianceId ]]
      totalVotes == SumSeq(Values(data.votes))
  IN  [ allianceId |-> allianceId,
        seats |-> SumSeq(Values(data.seats)),
        leadingSeats |-> SumSeq(Values(data.leadingSeats)),
        totalVotes |-> totalVotes,
        votePercentage |->
          IF totalVotesCast > 0 THEN Percent(totalVotes, totalVotesCast) ELSE Zero,
        parties |-> sortBySeats(partyBreakdowns) ]

\* the AllianceSeatCount of one alliance
allianceSeatCount(allianceId, data, totalVotesCast) ==
  LET allPartyIds == dedupe(Keys(data.seats) \o Keys(data.leadingSeats) \o Keys(data.votes), <<>>)
      known == SelectSeq(allPartyIds, LAMBDA partyId : getPartyById(partyId) # <<>>)
      partyBreakdowns ==
        [i \in 1..Len(known) |->
           [ partyId |-> known[i],
             seats |-> Get0(data.seats, known[i]),
             leadingSeats |-> Get0(data.leadingSeats, known[i]),
             totalVotes |-> Get0(data.votes, known[i]),
             votePercentage |->
               IF totalVotesCast > 0
               THEN Percent(Get0(data.votes, known[i]), totalVotesCast)
               ELSE Zero,
             allianceId |-> getPartyById(known[i])[1].allianceId ]]
      totalVotes == SumSeq(Values(data.votes))
  IN  [ allianceId |-> allianceId,
        seats |-> SumSeq(Values(data.seats)),
        leadingSeats |-> SumSeq(Values(data.leadingSeats)),
        totalVotes |-> totalVotes,
        votePercentage |->
          IF totalVotesCast > 0 THEN Percent(totalVotes, totalVotesCast) ELSE Zero,
        parties |-> sortBySeats(partyBreakdowns) ]

aggregateAllianceSeatCounts(rs) ==
  LET allianceData == aggregateResults(emptyAllianceData, rs)
      totalVotesCast == SumSeq([i \in 1..Len(rs) |-> rs[i].totalVotes])
  IN  [i \in 1..Len(alliances) |->
         allianceSeatCount(alliances[i], allianceData[alliances[i]], totalVotesCast)]

\* ------------------------------------------------------------------------
\* Inputs
\* ------------------------------------------------------------------------

\* vote counts an admin can submit: the form parses any integer
Votes == -1 .. MaxVote

\* tallies of at most MaxKeys distinct raw keys, in every insertion order
TalliesOver(keys, votes) ==
  { t \in UNION { [1..n -> keys \X votes] : n \in 0..MaxKeys } :
      \A i, j \in 1..Len(t) : i # j => t[i][1] # t[j][1] }

\* raw keys of the tally specification: an id, the display name of the same
\* party, and a name no party has
TallyKeys == {"bnp", "Bangladesh Nationalist Party", "Gono Odhikar"}

\* raw keys of legacy documents
LegacyKeys == {"bnp", "Bangladesh Nationalist Party"}

\* raw keys of the aggregation specification: one party of each alliance
AggregateKeys == {"bnp", "jamaat"}

\* raw keys of the catch-all specification: two parties outside both
\* alliances
OthersKeys == {"independent", "other"}

\* raw keys of the breakdown specification: a party of an alliance and two
\* parties outside both
MixedKeys == {"bnp", "independent", "other"}

\* two spellings of one constituency
SpellingInputs == { <<"C", "-", "1">>, <<"c", "'", " ", "1">> }

\* two constituencies
ConstituencyInputs == { <<"c", "-", "1">>, <<"d", "-", "2">> }

\* contents of the parties collection, by display order: the static table,
\* and a collection that lacks one of its parties
PartyLists == { <<"al", "bnp", "jamaat", "independent", "other">>,
                <<"al", "bnp", "independent", "other">> }

Statuses == {"partial", "completed"}

\* ------------------------------------------------------------------------
\* The parties cache (lib/firestore, getParties)
\* ------------------------------------------------------------------------

\* 5 minutes, in milliseconds
CACHE_DURATION == 300000

\* variant: a cache of exactly CACHE_DURATION is still served
getPartiesHitInclusive ==
  cache.parties # <<>> /\ now - cache.partiesTimestamp <= CACHE_DURATION

\* cache.parties && now - cache.partiesTimestamp < CACHE_DURATION
getPartiesHit ==
  cache.parties # <<>> /\ now - cache.partiesTimestamp < CACHE_DURATION

\* what a getParties() call whose getDocs is served at once returns
partiesRead == IF getPartiesHit THEN cache.parties[1] ELSE partyList

\* the cache after that call: cache.parties = parties,
\* cache.partiesTimestamp = now
cacheRead ==
  IF getPartiesHit THEN cache
  ELSE [parties |-> <<partyList>>, partiesTimestamp |-> now]

\* the record of what that call returned
returnedRead == <<[parties |-> partiesRead, cached |-> getPartiesHit]>>

\* getParties() up to its return or its await: a fresh cache is returned,
\* otherwise getDocs is awaited with now as read at the call
getPartiesCall ==
  /\ IF getPartiesHit
     THEN /\ partiesReturned' = <<[parties |-> cache.parties[1], cached |-> TRUE]>>
          /\ UNCHANGED partyReads
     ELSE /\ Len(partyReads) < MaxReads
          /\ partyReads' = Append(partyReads, [now |-> now])
          /\ UNCHANGED partiesReturned
  /\ UNCHANGED <<cache, now, storeVars>>
  /\ UNCHANGED <<activeId, voteInputs, calls, authVars, siteVars>>

\* getDocs of the parties collection resolves: the cache is replaced and
\* stamped with the now of the call
getPartiesResolved(k) ==
  /\ cache' = [parties |-> <<partyList>>, partiesTimestamp |-> partyReads[k].now]
  /\ partiesReturned' = <<[parties |-> partyList, cached |-> FALSE]>>
  /\ partyReads' = SubSeq(partyReads, 1, k - 1) \o SubSeq(partyReads, k + 1, Len(partyReads))
  /\ UNCHANGED <<now, storeVars>>
  /\ UNCHANGED <<activeId, voteInputs, calls, authVars, siteVars>>

\* a snapshot reaches a subscribeToParties listener: cache.parties =
\* parties, cache.partiesTimestamp = Date.now()
partiesSnapshot ==
  /\ cache' = [parties |-> <<partyList>>, partiesTimestamp |-> now]
  /\ UNCHANGED <<now, partyReads, partiesReturned, storeVars>>
  /\ UNCHANGED <<activeId, voteInputs, calls, authVars, siteVars>>

\* ------------------------------------------------------------------------
\* Operations
\* ------------------------------------------------------------------------

\* variant: the summary is computed from the results read before the write
saveResultStaleRead(payload) ==
  IF uriMalformed(payload.constituencyId)
  THEN /\ outcome' = "rejected"
       /\ UNCHANGED <<results, summary, partyList, activeId, voteInputs, calls>>
       /\ UNCHANGED <<authVars, siteVars, cacheVars>>
  ELSE LET normalizedId == normalizeConstituencyId(payload.constituencyId)
           originalFormat == lowerId(decodeURIComponent(payload.constituencyId))
           actualDocId ==
             IF originalFormat # normalizedId /\ originalFormat \in DOMAIN results
             THEN originalFormat
             ELSE normalizedId
           doc == resultDoc(actualDocId, payload.partyVotes, payload.status)
           store == [id \in DOMAIN results \cup {actualDocId} |->
                       IF id = actualDocId THEN doc ELSE results[id]]
       IN  /\ results' = store
           /\ summary' = <<updateElectionSummary(getResults(results), partiesRead)>>
           /\ cache' = cacheRead
           /\ partiesReturned' = returnedRead
           /\ outcome' = "resolved"
           /\ UNCHANGED <<partyList, activeId, voteInputs, calls>>
           /\ UNCHANGED <<authVars, siteVars, now, partyReads>>

\* saveResult(payload): choose the document id, write the result document,
\* then recompute and write the summary
saveResult(payload) ==
  IF uriMalformed(payload.constituencyId)
  THEN /\ outcome' = "rejected"
       /\ UNCHANGED <<results, summary, partyList, activeId, voteInputs, calls>>
       /\ UNCHANGED <<authVars, siteVars, cacheVars>>
  ELSE LET normalizedId == normalizeConstituencyId(payload.constituencyId)
           originalFormat == lowerId(decodeURIComponent(payload.constituencyId))
           actualDocId ==
             IF originalFormat # normalizedId /\ originalFormat \in DOMAIN results
             THEN originalFormat
             ELSE normalizedId
           doc == resultDoc(actualDocId, payload.partyVotes, payload.status)
           store == [id \in DOMAIN results \cup {actualDocId} |->
                       IF id = actualDocId THEN doc ELSE results[id]]
       IN  /\ results' = store
           /\ summary' = <<updateElectionSummary(getResults(store), partiesRead)>>
           /\ cache' = cacheRead
           /\ partiesReturned' = returnedRead
           /\ outcome' = "resolved"
           /\ UNCHANGED <<partyList, activeId, voteInputs, calls>>
           /\ UNCHANGED <<authVars, siteVars, now, partyReads>>

\* saveResult as the steps between its awaits.  A call is a record of its
\* payload, the await it is suspended at (pc), the document id it chose and
\* the results it read for the summary.

\* saveResult(payload) up to its first await: getDoc of the original-format
\* id when that differs from the normalized id, else setDoc of the result
saveResultCall(payload) ==
  /\ Len(calls) < MaxCalls
  /\ calls' = Append(calls,
       [ payload |-> [ constituencyId |-> payload.constituencyId,
                       partyVotes |-> payload.partyVotes,
                       status |-> payload.status ],
         pc |-> IF uriMalformed(payload.constituencyId) THEN "rejected"
                ELSE IF lowerId(decodeURIComponent(payload.constituencyId))
                          # normalizeConstituencyId(payload.constituencyId)
                THEN "getDoc"
                ELSE "setDoc",
         actualDocId |-> IF uriMalformed(payload.constituencyId) THEN <<>>
                         ELSE normalizeConstituencyId(payload.constituencyId),
         snapshot |-> <<>>,
         parties |-> <<>> ])
  /\ outcome' = IF uriMalformed(payload.constituencyId) THEN "rejected" ELSE outcome
  /\ UNCHANGED <<results, summary, partyList, activeId, voteInputs>>
  /\ UNCHANGED <<authVars, siteVars, cacheVars>>

\* getDoc(originalFormat) resolves: the original format is kept if it exists
saveResultGetDoc(k) ==
  /\ calls[k].pc = "getDoc"
  /\ LET originalFormat == lowerId(decodeURIComponent(calls[k].payload.constituencyId))
     IN  calls' = [calls EXCEPT ![k].pc = "setDoc",
                                ![k].actualDocId =
                                   IF originalFormat \in DOMAIN results
                                   THEN originalFormat ELSE @]
  /\ UNCHANGED <<storeVars, activeId, voteInputs>>
  /\ UNCHANGED <<authVars, siteVars, cacheVars>>

\* setDoc of the result document resolves; updateElectionSummary starts
saveResultSetDoc(k) ==
  /\ calls[k].pc = "setDoc"
  /\ LET actualDocId == calls[k].actualDocId
         doc == resultDoc(actualDocId, calls[k].payload.partyVotes, calls[k].payload.status)
     IN  results' = [id \in DOMAIN results \cup {actualDocId} |->
                       IF id = actualDocId THEN doc ELSE results[id]]
  /\ calls' = [calls EXCEPT ![k].pc = "getResults"]
  /\ UNCHANGED <<summary, partyList, outcome, activeId, voteInputs>>
  /\ UNCHANGED <<authVars, siteVars, cacheVars>>

\* Promise.all([getResults(), getParties()]) resolves
updateElectionSummaryRead(k) ==
  /\ calls[k].pc = "getResults"
  /\ calls' = [calls EXCEPT ![k].pc = "setSummary",
                             ![k].snapshot = getResults(results),
                             ![k].parties = partiesRead]
  /\ cache' = cacheRead
  /\ partiesReturned' = returnedRead
  /\ UNCHANGED <<storeVars, activeId, voteInputs>>
  /\ UNCHANGED <<authVars, siteVars, now, partyReads>>

\* setDoc of the summary resolves, and with it the saveResult call
updateElectionSummaryWrite(k) ==
  /\ calls[k].pc = "setSummary"
  /\ summary' = <<updateElectionSummary(calls[k].snapshot, calls[k].parties)>>
  /\ calls' = [calls EXCEPT ![k].pc = "resolved"]
  /\ outcome' = "resolved"
  /\ UNCHANGED <<results, partyList, activeId, voteInputs>>
  /\ UNCHANGED <<authVars, siteVars, cacheVars>>

\* the Firestore request a call awaits fails (network, permission): the
\* await throws and saveResult rejects; handleSubmit shows the error
awaitRejected(k) ==
  /\ calls[k].pc \in {"getDoc", "setDoc", "getResults", "setSummary"}
  /\ calls' = [calls EXCEPT ![k].pc = "rejected"]
  /\ outcome' = "rejected"
  /\ UNCHANGED <<results, summary, partyList, activeId, voteInputs>>
  /\ UNCHANGED <<authVars, siteVars, cacheVars>>

\* ------------------------------------------------------------------------
\* Authentication (lib/auth, hooks/useAuth)
\* ------------------------------------------------------------------------

\* Firebase accounts
Accounts == {"admin1", "guest"}

\* the adminUsers collection: uid -> role, for the accounts that have a
\* document
adminUsers == << <<"admin1", "admin">> >>

\* docSnap.exists() && ['admin', 'data-entry'].includes(docSnap.data()?.role)
isAdmin(uid) == HasKey(adminUsers, uid) /\ At(adminUsers, uid) \in {"admin", "data-entry"}

\* the admin record of uid: <<record>>, or <<>> when there is no document
getAdminUser(uid) ==
  IF HasKey(adminUsers, uid)
  THEN <<[uid |-> uid, role |-> At(adminUsers, uid)]>>
  ELSE <<>>

\* callbacks without its k-th element
RemoveAt(s, k) == SubSeq(s, 1, k - 1) \o SubSeq(s, k + 1, Len(s))

\* onAuthChange callback, from the auth-state event to its first await: a
\* null session is handled to the end, a user is set and isAdmin awaited
onAuthChange(firebaseUser) ==
  /\ firebaseUser # currentUser
  /\ currentUser' = firebaseUser
  /\ error' = Null
  /\ IF firebaseUser # Null
     THEN /\ Len(callbacks) < MaxCallbacks
          /\ user' = firebaseUser
          /\ loading' = TRUE
          /\ callbacks' = Append(callbacks, [firebaseUser |-> firebaseUser, pc |-> "isAdmin"])
          /\ UNCHANGED adminUser
     ELSE /\ user' = Null
          /\ adminUser' = <<>>
          /\ loading' = FALSE
          /\ UNCHANGED callbacks
  /\ UNCHANGED <<storeVars, activeId, voteInputs, calls, siteVars, cacheVars>>

\* await isAdmin(uid) resolves: an admin goes on to getAdminUser, anyone
\* else gets the error and signOut is called
isAdminResolved(k) ==
  /\ callbacks[k].pc = "isAdmin"
  /\ IF isAdmin(callbacks[k].firebaseUser)
     THEN /\ callbacks' = [callbacks EXCEPT ![k].pc = "getAdminUser"]
          /\ UNCHANGED error
     ELSE /\ callbacks' = [callbacks EXCEPT ![k].pc = "signOut"]
          /\ error' = "You do not have admin access"
  /\ UNCHANGED <<user, adminUser, loading, currentUser>>
  /\ UNCHANGED <<storeVars, activeId, voteInputs, calls, siteVars, cacheVars>>

\* await getAdminUser(uid) resolves: setAdminUser(admin), setLoading(false)
getAdminUserResolved(k) ==
  /\ callbacks[k].pc = "getAdminUser"
  /\ adminUser' = getAdminUser(callbacks[k].firebaseUser)
  /\ loading' = FALSE
  /\ callbacks' = RemoveAt(callbacks, k)
  /\ UNCHANGED <<user, error, currentUser>>
  /\ UNCHANGED <<storeVars, activeId, voteInputs, calls, siteVars, cacheVars>>

\* Firebase signs the session out and notifies the listener, whose callback
\* for the null session runs to its end; the awaiting callback is not
\* resumed yet
signOutNotified(k) ==
  /\ callbacks[k].pc = "signOut"
  /\ callbacks' = [callbacks EXCEPT ![k].pc = "signedOut"]
  /\ IF currentUser # Null
     THEN /\ currentUser' = Null
          /\ error' = Null
          /\ user' = Null
          /\ adminUser' = <<>>
          /\ loading' = FALSE
     ELSE UNCHANGED <<currentUser, error, user, adminUser, loading>>
  /\ UNCHANGED <<storeVars, activeId, voteInputs, calls, siteVars, cacheVars>>

\* await signOut() resolves: setUser(null), setAdminUser(null),
\* setLoading(false)
signOutResolved(k) ==
  /\ callbacks[k].pc = "signedOut"
  /\ user' = Null
  /\ adminUser' = <<>>
  /\ loading' = FALSE
  /\ callbacks' = RemoveAt(callbacks, k)
  /\ UNCHANGED <<error, currentUser>>
  /\ UNCHANGED <<storeVars, activeId, voteInputs, calls, siteVars, cacheVars>>

\* AdminPanel.selectConstituency(c): the open constituency is closed, another
\* one is opened with one form entry per candidate, filled from its result
selectConstituency(c, entries) ==
  /\ IF activeId = c
     THEN /\ activeId' = <<>>
          /\ voteInputs' = <<>>
     ELSE LET result == getResultByConstituency(results, c)
          IN  /\ activeId' = c
              /\ voteInputs' =
                   [i \in 1..Len(entries) |->
                      [ partyId |-> entries[i],
                        votes |-> IF result = <<>> THEN 0
                                  ELSE Get0(result[1].partyVotes, entries[i]) ]]
  /\ UNCHANGED <<storeVars, calls>>
  /\ UNCHANGED <<authVars, siteVars, cacheVars>>

\* AdminPanel.updateVote(partyId, value): value is parsed to votes
updateVote(partyId, votes) ==
  /\ voteInputs' =
       [i \in 1..Len(voteInputs) |->
          IF voteInputs[i].partyId = partyId
          THEN [voteInputs[i] EXCEPT !.votes = votes]
          ELSE voteInputs[i]]
  /\ UNCHANGED <<storeVars, activeId, calls>>
  /\ UNCHANGED <<authVars, siteVars, cacheVars>>

\* voteInputs.forEach(v => { partyVotes[v.partyId] = v.votes })
RECURSIVE formPartyVotes(_, _)
formPartyVotes(inputs, acc) ==
  IF inputs = <<>> THEN acc
  ELSE formPartyVotes(Tail(inputs), Put(acc, Head(inputs).partyId, Head(inputs).votes))

\* AdminPanel.handleSubmit with the status the admin chose
handleSubmit(status) ==
  IF activeId = <<>>
  THEN UNCHANGED vars
  ELSE saveResult([ constituencyId |-> activeId,
                    partyVotes |-> formPartyVotes(voteInputs, <<>>),
                    status |-> status ])

\* scripts/reset-results.js: delete every result, write the empty summary
resetResults ==
  /\ results' = <<>>
  /\ summary' = <<emptySummary>>
  /\ outcome' = "none"
  /\ UNCHANGED <<partyList, activeId, voteInputs, calls>>
  /\ UNCHANGED <<authVars, siteVars, cacheVars>>

\* ------------------------------------------------------------------------
\* Subscriptions (lib/firestore subscribeToResult, hooks
\* useConstituencyResult)
\* ------------------------------------------------------------------------

\* the snapshot of document id: <<data>>, or <<>> when it does not exist
docSnap(store, id) == IF id \in DOMAIN store THEN <<store[id]>> ELSE <<>>

\* useConstituencyResult's effect: setLoading(true), then
\* subscribeToResult(constituencyId, callback) registers the listener of the
\* normalized id
subscribeToResult(constituencyId) ==
  /\ subState \in {"none", "closed"}
  /\ subState' = "open"
  /\ subId' = constituencyId
  /\ listeners' = [l \in {"primary", "fallback"} |->
                     [registered |-> l = "primary", seen |-> <<>>]]
  /\ unsubscribeRef' = "primary"
  /\ resultLoading' = TRUE
  /\ UNCHANGED constituencyResult
  /\ UNCHANGED <<storeVars, activeId, voteInputs, calls, authVars, feedVars,
               newsVars, cacheVars>>

\* a snapshot of the normalized-id document reaches the first listener:
\* an existing document is handed to the callback; otherwise the listener
\* of the original format is registered, unsubscribe() is called and the
\* variable is pointed at the new listener
primarySnapshot ==
  LET normalizedId == normalizeConstituencyId(subId)
      snap == docSnap(results, normalizedId)
  IN  /\ listeners["primary"].registered
      /\ listeners["primary"].seen # <<snap>>
      /\ IF snap # <<>>
         THEN /\ listeners' = [listeners EXCEPT !["primary"].seen = <<snap>>]
              /\ constituencyResult' = <<normalizeResult(snap[1], normalizedId)>>
              /\ resultLoading' = FALSE
              /\ UNCHANGED unsubscribeRef
         ELSE /\ listeners' =
                   [l \in {"primary", "fallback"} |->
                      [ registered |-> IF l = unsubscribeRef THEN FALSE
                                       ELSE IF l = "fallback" THEN TRUE
                                       ELSE listeners[l].registered,
                        seen |-> IF l = "primary" THEN <<snap>> ELSE <<>> ]]
              /\ unsubscribeRef' = "fallback"
              /\ UNCHANGED <<constituencyResult, resultLoading>>
      /\ UNCHANGED <<subState, subId>>
      /\ UNCHANGED <<storeVars, activeId, voteInputs, calls, authVars, feedVars,
               newsVars, cacheVars>>

\* a snapshot of the original-format document reaches the second listener
fallbackSnapshot ==
  LET originalFormat == lowerId(decodeURIComponent(subId))
      snap == docSnap(results, originalFormat)
  IN  /\ listeners["fallback"].registered
      /\ listeners["fallback"].seen # <<snap>>
      /\ listeners' = [listeners EXCEPT !["fallback"].seen = <<snap>>]
      /\ constituencyResult' =
           IF snap = <<>> THEN <<>> ELSE <<normalizeResult(snap[1], originalFormat)>>
      /\ resultLoading' = FALSE
      /\ UNCHANGED <<subState, subId, unsubscribeRef>>
      /\ UNCHANGED <<storeVars, activeId, voteInputs, calls, authVars, feedVars,
               newsVars, cacheVars>>

\* variant: the function returned is the first listener's unsubscribe
unsubscribeResultFirst ==
  /\ subState = "open"
  /\ subState' = "closed"
  /\ listeners' = [listeners EXCEPT !["primary"].registered = FALSE]
  /\ UNCHANGED <<subId, unsubscribeRef, constituencyResult, resultLoading>>
  /\ UNCHANGED <<storeVars, activeId, voteInputs, calls, authVars, feedVars,
               newsVars, cacheVars>>

\* the function subscribeToResult returned, () => unsubscribe(), called by
\* the cleanup of the hook's effect
unsubscribeResult ==
  /\ subState = "open"
  /\ subState' = "closed"
  /\ listeners' = [listeners EXCEPT ![unsubscribeRef].registered = FALSE]
  /\ UNCHANGED <<subId, unsubscribeRef, constituencyResult, resultLoading>>
  /\ UNCHANGED <<storeVars, activeId, voteInputs, calls, authVars, feedVars,
               newsVars, cacheVars>>

\* ------------------------------------------------------------------------
\* The results feed (hooks useResults, lib/firestore subscribeToResults)
\* ------------------------------------------------------------------------

\* the effect of useResults: getResults() is called and the
\* subscribeToResults listener is registered
useResultsMount ==
  /\ feedState = "none"
  /\ feedState' = "mounted"
  /\ fetchPc' = "getDocs"
  /\ feedListener' = [registered |-> TRUE, seen |-> <<>>]
  /\ UNCHANGED <<fetchData, resultsState, resultsLoading>>
  /\ UNCHANGED <<storeVars, activeId, voteInputs, calls, authVars, subVars,
               newsVars, cacheVars>>

\* getDocs of the results collection is served
getResultsRead ==
  /\ fetchPc = "getDocs"
  /\ fetchPc' = "then"
  /\ fetchData' = getResults(results)
  /\ UNCHANGED <<feedState, feedListener, resultsState, resultsLoading>>
  /\ UNCHANGED <<storeVars, activeId, voteInputs, calls, authVars, subVars,
               newsVars, cacheVars>>

\* the fetch resolves: .then(setResults), .finally(() => setLoading(false))
getResultsResolved ==
  /\ fetchPc = "then"
  /\ fetchPc' = "done"
  /\ resultsState' = fetchData
  /\ resultsLoading' = FALSE
  /\ UNCHANGED <<feedState, fetchData, feedListener>>
  /\ UNCHANGED <<storeVars, activeId, voteInputs, calls, authVars, subVars,
               newsVars, cacheVars>>

\* a snapshot of the collection reaches the listener: setResults(results)
resultsSnapshot ==
  /\ feedListener.registered
  /\ feedListener.seen # <<getResults(results)>>
  /\ feedListener' = [feedListener EXCEPT !.seen = <<getResults(results)>>]
  /\ resultsState' = getResults(results)
  /\ UNCHANGED <<feedState, fetchPc, fetchData, resultsLoading>>
  /\ UNCHANGED <<storeVars, activeId, voteInputs, calls, authVars, subVars,
               newsVars, cacheVars>>

\* the cleanup of the effect: unsubscribe()
useResultsCleanup ==
  /\ feedState = "mounted"
  /\ feedState' = "cleaned"
  /\ feedListener' = [feedListener EXCEPT !.registered = FALSE]
  /\ UNCHANGED <<fetchPc, fetchData, resultsState, resultsLoading>>
  /\ UNCHANGED <<storeVars, activeId, voteInputs, calls, authVars, subVars,
               newsVars, cacheVars>>

\* ------------------------------------------------------------------------
\* News (lib/news)
\* ------------------------------------------------------------------------

\* .toLowerCase() on the letters of the model's headlines
slugLowerChar(c) == IF c = "X" THEN "x" ELSE c

\* \w, and the characters [\s_-] that become hyphens
SlugWordChars == {"x", "X", "_", "0", "1", "2", "3", "4", "5", "6", "7", "8", "9"}

SlugSeparators == {" ", "_", "-"}

\* .replace(/[\s_-]+/g, '-')
RECURSIVE hyphenateRuns(_)
hyphenateRuns(str) ==
  IF str = <<>> THEN <<>>
  ELSE IF Head(str) \in SlugSeparators
       THEN IF Len(str) > 1 /\ str[2] \in SlugSeparators
            THEN hyphenateRuns(Tail(str))
            ELSE <<"-">> \o hyphenateRuns(Tail(str))
       ELSE <<Head(str)>> \o hyphenateRuns(Tail(str))

\* .replace(/^-+|-+$/g, '')
RECURSIVE stripHyphens(_)
stripHyphens(str) ==
  IF str # <<>> /\ Head(str) = "-" THEN stripHyphens(Tail(str))
  ELSE IF str # <<>> /\ str[Len(str)] = "-" THEN stripHyphens(SubSeq(str, 1, Len(str) - 1))
  ELSE str

\* the slug of a headline: lower case, trimmed, special characters removed,
\* separators turned into single hyphens, outer hyphens removed
baseSlug(headline) ==
  LET lower == [i \in 1..Len(headline) |-> slugLowerChar(headline[i])]
      trimmed == trimEnd(trimStart(lower))
      kept == SelectSeq(trimmed, LAMBDA c : c \in SlugWordChars \cup {" ", "-"})
  IN  stripHyphens(hyphenateRuns(kept))

\* the decimal digits of counter
DigitChar(d) ==
  CASE d = 0 -> "0" [] d = 1 -> "1" [] d = 2 -> "2" [] d = 3 -> "3" [] d = 4 -> "4"
    [] d = 5 -> "5" [] d = 6 -> "6" [] d = 7 -> "7" [] d = 8 -> "8" [] d = 9 -> "9"

RECURSIVE counterDigits(_)
counterDigits(n) ==
  IF n < 10 THEN <<DigitChar(n)>> ELSE counterDigits(n \div 10) \o <<DigitChar(n % 10)>>

\* the slug generateUniqueSlug is trying: baseSlug, then `${baseSlug}-${counter}`
slugOf(base, counter) ==
  IF counter = 1 THEN base ELSE base \o <<"-">> \o counterDigits(counter)

\* slugExists(slug, excludeId); excludeId is 0 when not given
slugExists(slug, excludeId) ==
  \E i \in 1..Len(news) : news[i].slug = slug /\ (excludeId = 0 \/ i # excludeId)

\* createNews(data) up to the first query of generateUniqueSlug
createNews(headline) ==
  /\ Len(newsCalls) < MaxCalls
  /\ newsCalls' = Append(newsCalls,
       [op |-> "create", id |-> 0, base |-> baseSlug(headline), counter |-> 1,
        pc |-> "slugExists"])
  /\ UNCHANGED news
  /\ UNCHANGED <<storeVars, activeId, voteInputs, calls, authVars, subVars, feedVars,
               cacheVars>>

\* updateNews(id, data) up to its getDoc
updateNews(id, headline) ==
  /\ Len(newsCalls) < MaxCalls
  /\ newsCalls' = Append(newsCalls,
       [op |-> "update", id |-> id, base |-> baseSlug(headline), counter |-> 1,
        pc |-> "getDoc"])
  /\ UNCHANGED news
  /\ UNCHANGED <<storeVars, activeId, voteInputs, calls, authVars, subVars, feedVars,
               cacheVars>>

\* getDoc resolves: 'News article not found' is thrown for a missing article
updateNewsGetDoc(k) ==
  /\ newsCalls[k].pc = "getDoc"
  /\ newsCalls' = [newsCalls EXCEPT ![k].pc =
                     IF newsCalls[k].id \in 1..Len(news) THEN "slugExists" ELSE "rejected"]
  /\ UNCHANGED news
  /\ UNCHANGED <<storeVars, activeId, voteInputs, calls, authVars, subVars, feedVars,
               cacheVars>>

\* the query of slugExists resolves: a taken slug gives the next counter,
\* a free one ends the loop of generateUniqueSlug
slugExistsResolved(k) ==
  /\ newsCalls[k].pc = "slugExists"
  /\ newsCalls' =
       IF slugExists(slugOf(newsCalls[k].base, newsCalls[k].counter), newsCalls[k].id)
       THEN [newsCalls EXCEPT ![k].counter = @ + 1]
       ELSE [newsCalls EXCEPT ![k].pc = "write"]
  /\ UNCHANGED news
  /\ UNCHANGED <<storeVars, activeId, voteInputs, calls, authVars, subVars, feedVars,
               cacheVars>>

\* addDoc / updateDoc with the slug resolves
newsWritten(k) ==
  /\ newsCalls[k].pc = "write"
  /\ news' =
       IF newsCalls[k].op = "create"
       THEN Append(news, [slug |-> slugOf(newsCalls[k].base, newsCalls[k].counter)])
       ELSE [news EXCEPT ![newsCalls[k].id].slug =
               slugOf(newsCalls[k].base, newsCalls[k].counter)]
  /\ newsCalls' = [newsCalls EXCEPT ![k].pc = "done"]
  /\ UNCHANGED <<storeVars, activeId, voteInputs, calls, authVars, subVars, feedVars,
               cacheVars>>

\* ------------------------------------------------------------------------
\* Specifications
\* ------------------------------------------------------------------------

\* the admin panel before a constituency is selected, no saveResult call
\* made
InitPanel ==
  /\ activeId = <<>>
  /\ voteInputs = <<>>
  /\ calls = <<>>

\* the hook after mount: loading, Firebase Auth has not reported a session
InitAuth ==
  /\ user = Null
  /\ adminUser = <<>>
  /\ loading = TRUE
  /\ error = Null
  /\ currentUser = Unresolved
  /\ callbacks = <<>>

\* no subscription made, the hook as mounted
InitSubscription ==
  /\ subState = "none"
  /\ subId = <<>>
  /\ listeners = [l \in {"primary", "fallback"} |-> [registered |-> FALSE, seen |-> <<>>]]
  /\ unsubscribeRef = "primary"
  /\ constituencyResult = <<>>
  /\ resultLoading = TRUE

\* useResults before its effect has run
InitFeed ==
  /\ feedState = "none"
  /\ fetchPc = "none"
  /\ fetchData = <<>>
  /\ feedListener = [registered |-> FALSE, seen |-> <<>>]
  /\ resultsState = <<>>
  /\ resultsLoading = TRUE

\* no news article, no call
InitNews ==
  /\ news = <<>>
  /\ newsCalls = <<>>

\* the module as loaded: cache = { parties: null, partiesTimestamp: 0 }
InitCache ==
  /\ cache = [parties |-> <<>>, partiesTimestamp |-> 0]
  /\ now = 0
  /\ partyReads = <<>>
  /\ partiesReturned = <<>>

InitSite ==
  /\ InitSubscription
  /\ InitFeed
  /\ InitNews
  /\ InitCache

\* a fresh project: no result, no summary document
Init ==
  /\ results = <<>>
  /\ summary = <<>>
  /\ partyList \in PartyLists
  /\ outcome = "none"
  /\ InitPanel
  /\ InitAuth
  /\ InitSite

SaveAggregate ==
  \E c \in ConstituencyInputs, t \in TalliesOver(AggregateKeys, 0..MaxVote), st \in Statuses :
    saveResult([constituencyId |-> c, partyVotes |-> t, status |-> st])

Next == SaveAggregate \/ resetResults

\* several constituencies, tallies over canonical keys
Spec == Init /\ [][Next]_vars

\* one constituency that may hold a legacy document
InitTally ==
  /\ \/ results = <<>>
     \/ \E t \in TalliesOver(LegacyKeys, Votes), st \in Statuses :
          results = [id \in {<<"c", "-", "1">>} |-> legacyResultDoc(id, t, st)]
  /\ summary = <<>>
  /\ partyList \in PartyLists
  /\ outcome = "none"
  /\ InitPanel
  /\ InitAuth
  /\ InitSite

SaveTally ==
  \E c \in SpellingInputs, t \in TalliesOver(TallyKeys, Votes), st \in Statuses :
    saveResult([constituencyId |-> c, partyVotes |-> t, status |-> st])

NextTally == SaveTally \/ resetResults

\* one constituency under several spellings, tallies over raw keys
SpecTally == InitTally /\ [][NextTally]_vars

\* the constituency of the form specification
FormConstituencies == { <<"c", "-", "1">> }

\* candidates of a constituency, by the party string of their entry
CandidateLists == { Keys(t) : t \in TalliesOver(TallyKeys, {0}) }

\* a legacy document with both spellings of one party, or no document
InitForm ==
  /\ \/ results = <<>>
     \/ \E t \in TalliesOver(LegacyKeys, {1}) :
          results = [id \in {<<"c", "-", "1">>} |-> legacyResultDoc(id, t, "completed")]
  /\ summary = <<>>
  /\ partyList = [k \in 1..Len(parties) |-> parties[k].id]
  /\ outcome = "none"
  /\ InitPanel
  /\ InitAuth
  /\ InitSite

SelectConstituency ==
  \E c \in FormConstituencies, entries \in CandidateLists : selectConstituency(c, entries)

\* the counts typed into a field of the form
FormVotes == {0, MaxVote}

UpdateVote ==
  \E i \in 1..Len(voteInputs), votes \in FormVotes : updateVote(voteInputs[i].partyId, votes)

\* the counts submitted stay within the counts of the model
HandleSubmit ==
  /\ \A i \in 1..Len(voteInputs) : voteInputs[i].votes \in Votes
  /\ \E st \in Statuses : handleSubmit(st)

NextForm == SelectConstituency \/ UpdateVote \/ HandleSubmit

\* one constituency entered through the form of the admin panel
SpecForm == InitForm /\ [][NextForm]_vars

\* constituencies of the concurrent specification: one id in its original
\* format, one already normalized
ConcurrentIds == { <<"c", "'", " ", "1">>, <<"d", "-", "2">> }

SaveResultCall ==
  \E c \in ConcurrentIds, t \in TalliesOver({"bnp"}, {MaxVote}) \ {<<>>} :
    saveResultCall([constituencyId |-> c, partyVotes |-> t, status |-> "completed"])

SaveResultGetDoc == \E k \in 1..Len(calls) : saveResultGetDoc(k)

SaveResultSetDoc == \E k \in 1..Len(calls) : saveResultSetDoc(k)

UpdateElectionSummaryRead == \E k \in 1..Len(calls) : updateElectionSummaryRead(k)

UpdateElectionSummaryWrite == \E k \in 1..Len(calls) : updateElectionSummaryWrite(k)

NextConcurrent ==
  \/ SaveResultCall
  \/ SaveResultGetDoc
  \/ SaveResultSetDoc
  \/ UpdateElectionSummaryRead
  \/ UpdateElectionSummaryWrite

\* saveResult calls of several admins, interleaved at their awaits
SpecConcurrent == Init /\ [][NextConcurrent]_vars

OnAuthChange == \E u \in Accounts \cup {Null} : onAuthChange(u)

IsAdminResolved == \E k \in 1..Len(callbacks) : isAdminResolved(k)

GetAdminUserResolved == \E k \in 1..Len(callbacks) : getAdminUserResolved(k)

SignOutNotified == \E k \in 1..Len(callbacks) : signOutNotified(k)

SignOutResolved == \E k \in 1..Len(callbacks) : signOutResolved(k)

NextAuth ==
  \/ OnAuthChange
  \/ IsAdminResolved
  \/ GetAdminUserResolved
  \/ SignOutNotified
  \/ SignOutResolved

\* the auth hook under sign-ins and sign-outs of the Firebase session
SpecAuth == Init /\ [][NextAuth]_vars

AwaitRejected == \E k \in 1..Len(calls) : awaitRejected(k)

NextFailing == NextConcurrent \/ AwaitRejected

\* saveResult calls whose Firestore requests may fail
SpecFailing == Init /\ [][NextFailing]_vars

\* the spellings a constituency page or the admin panel may use
SubscribeIds == { <<"c", "'", " ", "1">>, <<"c", "-", "1">> }

\* no result, or the legacy document under the original-format id
InitSubscribe ==
  /\ \/ results = <<>>
     \/ results = [id \in {<<"c", "'", " ", "1">>} |->
                     legacyResultDoc(id, << <<"bnp", 1>> >>, "completed")]
  /\ summary = <<>>
  /\ partyList = [k \in 1..Len(parties) |-> parties[k].id]
  /\ outcome = "none"
  /\ InitPanel
  /\ InitAuth
  /\ InitSite

SubscribeToResult == \E c \in SubscribeIds : subscribeToResult(c)

SaveSubscribed ==
  \E c \in SubscribeIds, t \in TalliesOver({"bnp"}, 1..MaxVote) \ {<<>>} :
    saveResult([constituencyId |-> c, partyVotes |-> t, status |-> "completed"])

NextSubscribe ==
  \/ SubscribeToResult
  \/ primarySnapshot
  \/ fallbackSnapshot
  \/ unsubscribeResult
  \/ SaveSubscribed
  \/ resetResults

\* a constituency page that subscribes, unsubscribes and subscribes again
\* while results are saved and reset
SpecSubscribe == InitSubscribe /\ [][NextSubscribe]_vars

SubscribeOnce == subState = "none" /\ SubscribeToResult

NextDeliver ==
  \/ SubscribeOnce
  \/ primarySnapshot
  \/ fallbackSnapshot
  \/ unsubscribeResult
  \/ SaveSubscribed

\* one subscription on a project without results; no result is deleted and
\* every snapshot a registered listener is owed is delivered
SpecDeliver ==
  /\ Init
  /\ [][NextDeliver]_vars
  /\ WF_vars(primarySnapshot)
  /\ WF_vars(fallbackSnapshot)

\* the instants the clock takes: around every multiple of CACHE_DURATION
Clock ==
  { t \in { k * CACHE_DURATION + d : k \in 0..MaxPeriods, d \in {-1, 0, 1} } : t >= 0 }

\* time passes
Tick ==
  /\ \E t \in Clock : t > now /\ now' = t
  /\ UNCHANGED <<cache, partyReads, partiesReturned, storeVars>>
  /\ UNCHANGED <<activeId, voteInputs, calls, authVars, siteVars>>

\* the parties collection is edited in Firestore
EditParties ==
  /\ \E pl \in PartyLists : pl # partyList /\ partyList' = pl
  /\ UNCHANGED <<results, summary, outcome, cacheVars>>
  /\ UNCHANGED <<activeId, voteInputs, calls, authVars, siteVars>>

GetPartiesResolved == \E k \in 1..Len(partyReads) : getPartiesResolved(k)

SaveCached ==
  \E st \in Statuses :
    saveResult([constituencyId |-> <<"c", "-", "1">>,
                partyVotes |-> << <<"bnp", 1>> >>, status |-> st])

NextCache ==
  \/ Tick
  \/ EditParties
  \/ getPartiesCall
  \/ GetPartiesResolved
  \/ partiesSnapshot
  \/ SaveCached

\* getParties callers, a parties listener and saveResult around the expiry
\* of the cache
SpecCache == Init /\ [][NextCache]_vars

\* headlines with one slug, and one whose slug is a suffixed form of it
Headlines == { <<"x">>, <<"X", "!">>, <<"x", " ", "2">> }

CreateNews == \E h \in Headlines : createNews(h)

UpdateNews == \E id \in 1..(Len(news) + 1), h \in Headlines : updateNews(id, h)

UpdateNewsGetDoc == \E k \in 1..Len(newsCalls) : updateNewsGetDoc(k)

SlugExistsResolved == \E k \in 1..Len(newsCalls) : slugExistsResolved(k)

NewsWritten == \E k \in 1..Len(newsCalls) : newsWritten(k)

NextNews ==
  \/ CreateNews
  \/ UpdateNews
  \/ UpdateNewsGetDoc
  \/ SlugExistsResolved
  \/ NewsWritten

\* createNews and updateNews calls of several editors, interleaved at their
\* awaits
SpecNews == Init /\ [][NextNews]_vars

\* the spellings of one constituency id
SpellingIds == { <<"c", "'", " ", "1">>, <<"c", "-", "1">>, <<"C", "-", "1">> }

SaveSpelled ==
  \E c \in SpellingIds, t \in TalliesOver(AggregateKeys, 0..MaxVote), st \in Statuses :
    saveResult([constituencyId |-> c, partyVotes |-> t, status |-> st])

NextSpellings == SaveSpelled \/ resetResults

\* one constituency saved under its spellings, on a project that may hold
\* its legacy original-format document
SpecSpellings == InitSubscribe /\ [][NextSpellings]_vars

\* a result is saved for a constituency that has none yet, so every state
\* of the collection holds the documents of the states before it
SaveDeclared ==
  \E c \in ConstituencyInputs, t \in TalliesOver({"bnp"}, 1..MaxVote) \ {<<>>}, st \in Statuses :
    /\ normalizeConstituencyId(c) \notin DOMAIN results
    /\ saveResult([constituencyId |-> c, partyVotes |-> t, status |-> st])

NextFeed ==
  \/ useResultsMount
  \/ getResultsRead
  \/ getResultsResolved
  \/ resultsSnapshot
  \/ useResultsCleanup
  \/ SaveDeclared

\* a page showing the results while constituencies are declared
SpecFeed == Init /\ [][NextFeed]_vars

\* the same hook where every pending await of a callback resolves; the
\* session changes of the environment stay optional
SpecAuthFair ==
  /\ Init
  /\ [][NextAuth]_vars
  /\ WF_vars(IsAdminResolved)
  /\ WF_vars(GetAdminUserResolved)
  /\ WF_vars(SignOutNotified)
  /\ WF_vars(SignOutResolved)

SaveOthers ==
  \E c \in ConstituencyInputs, t \in TalliesOver(OthersKeys, 0..MaxVote), st \in Statuses :
    saveResult([constituencyId |-> c, partyVotes |-> t, status |-> st])

NextOthers == SaveOthers \/ resetResults

\* several constituencies, tallies of parties outside both alliances
SpecOthers == Init /\ [][NextOthers]_vars

SaveMixed ==
  \E c \in ConstituencyInputs, t \in TalliesOver(MixedKeys, {MaxVote}), st \in Statuses :
    saveResult([constituencyId |-> c, partyVotes |-> t, status |-> st])

NextMixed == SaveMixed \/ resetResults

\* several constituencies, tallies mixing an alliance party with parties
\* outside both alliances
SpecMixed == Init /\ [][NextMixed]_vars

\* ------------------------------------------------------------------------
\* Vocabulary of the properties
\* ------------------------------------------------------------------------

\* documents written by the current saveResult (legacy ones carry a turnout)
SavedDocs ==
  { results[id] : id \in { i \in DOMAIN results : "turnoutPercentage" \notin DOMAIN results[i] } }

\* every stored document as normalizeResult returns it
ReadResults == { normalizeResult(results[id], id) : id \in DOMAIN results }

NonNegative(r) == \A i \in 1..Len(r.partyVotes) : r.partyVotes[i][2] >= 0

SomeVotes(r) == \E i \in 1..Len(r.partyVotes) : r.partyVotes[i][2] > 0

\* position of a canonical party id in lexical order
idRank(p) ==
  CASE p = "al" -> 1 [] p = "bnp" -> 2 [] p = "independent" -> 3
    [] p = "jamaat" -> 4 [] p = "other" -> 5

\* ids holding the greatest count of a tally
TopIds(pv) ==
  { pv[i][1] : i \in { k \in 1..Len(pv) : \A j \in 1..Len(pv) : pv[k][2] >= pv[j][2] } }

LexFirst(ids) == CHOOSE p \in ids : \A q \in ids : idRank(p) <= idRank(q)

\* the entry of the greatest count that comes first in key order
FirstTop(pv) ==
  pv[CHOOSE i \in 1..Len(pv) :
       /\ \A j \in 1..Len(pv) : pv[i][2] >= pv[j][2]
       /\ \A j \in 1..(i - 1) : pv[j][2] < pv[i][2]][1]

\* the stored summary is the one of the stored results
SummaryWritten == summary # <<>>

\* a field of the SeatCount of party p in the stored summary, 0 when the
\* party was filtered out
SeatField(p, f) ==
  LET scs == summary[1].partySeatCounts
      m == SelectSeq(scs, LAMBDA sc : sc.partyId = p)
  IN  IF m = <<>> THEN 0 ELSE m[1][f]

InPartyList(p) == \E k \in 1..Len(partyList) : partyList[k] = p

FullPartyList == \A k \in 1..Len(parties) : InPartyList(parties[k].id)

\* every order of the elements of a sequence
Perms(s) ==
  { [i \in 1..Len(s) |-> s[f[i]]] :
      f \in { g \in [1..Len(s) -> 1..Len(s)] :
                \A i, j \in 1..Len(s) : i # j => g[i] # g[j] } }

\* the same Results with the keys of every partyVotes map in every order
RECURSIVE KeyOrders(_)
KeyOrders(rs) ==
  IF rs = <<>> THEN {<<>>}
  ELSE { <<[Head(rs) EXCEPT !.partyVotes = pv]>> \o rest :
           pv \in Perms(Head(rs).partyVotes), rest \in KeyOrders(Tail(rs)) }

\* the alliance a party id belongs to: its own, or the catch-all
AllianceOf(p) == IF allianceIdOf(p) = Null THEN "others" ELSE allianceIdOf(p)

\* the votes of one Result that belong to alliance a
VotesIn(r, a) ==
  SumSeq([i \in 1..Len(r.partyVotes) |->
            IF AllianceOf(r.partyVotes[i][1]) = a THEN r.partyVotes[i][2] ELSE 0])

\* a percentage that is a number
Finite(pct) == pct[2] # 0

\* ------------------------------------------------------------------------
\* Properties
\* ------------------------------------------------------------------------

\* C1: conservation.  The votes of the party seat counts of the summary add
\* up to the votes of all results, which is the summary's totalVotesCast.
C1_Conservation ==
  SummaryWritten =>
    LET rs == getResults(results)
        scs == summary[1].partySeatCounts
        resultVotes == SumSeq([i \in 1..Len(rs) |-> rs[i].totalVotes])
    IN  /\ SumSeq([i \in 1..Len(scs) |-> scs[i].totalVotes]) = resultVotes
        /\ resultVotes = summary[1].totalVotesCast

\* C2: winner consistency.  A completed Result with votes, written by
\* saveResult from a tally of non-negative counts, names as winner the id of
\* the greatest count, the lexically first id when several tie.
C2_WinnerConsistency ==
  \A d \in SavedDocs :
    (d.status = "completed" /\ d.totalVotes > 0 /\ NonNegative(d))
      => d.winnerPartyId = LexFirst(TopIds(d.partyVotes))

\* C3: a Result written by saveResult or returned by normalizeResult (from
\* non-negative counts) has a winner if and only if it is completed and some
\* party has more than zero votes.
C3_WinnerIffCompletedWithVotes ==
  /\ \A d \in SavedDocs :
       NonNegative(d) => ((d.winnerPartyId # Null) <=> (d.status = "completed" /\ SomeVotes(d)))
  /\ \A r \in ReadResults :
       NonNegative(r) => ((r.winnerPartyId # Null) <=> (r.status = "completed" /\ SomeVotes(r)))

\* C4: negative vote counts are rejected.  saveResult never resolves having
\* stored a negative count: no document it wrote holds one.
C4_NegativeVotesRejected ==
  \A d \in SavedDocs : NonNegative(d)

\* C5: votes and seats of party ids that are not in the party list are
\* routed to the SeatCount of "other", never discarded (stated for Results
\* in which some party has votes).
C5_UnknownPartyRoutedToOther ==
  (SummaryWritten /\ \A r \in ReadResults : SomeVotes(r)) =>
    LET rs == getResults(results)
        routed(p) == p = "other" \/ ~InPartyList(p)
        votesOf(r) == SumSeq([i \in 1..Len(r.partyVotes) |->
                        IF routed(r.partyVotes[i][1]) THEN r.partyVotes[i][2] ELSE 0])
    IN  /\ SeatField("other", "totalVotes") = SumSeq([i \in 1..Len(rs) |-> votesOf(rs[i])])
        /\ SeatField("other", "seats") =
             Cardinality({ i \in 1..Len(rs) :
                /\ rs[i].status = "completed"
                /\ rs[i].winnerPartyId # Null
                /\ routed(rs[i].winnerPartyId) })

C7_DeclaredSeats ==
  SummaryWritten =>
    LET rs == getResults(results)
    IN  summary[1].declaredSeats =
          Cardinality({ i \in 1..Len(rs) : rs[i].status = "completed" })

\* C8: margin bound.  Every Result saveResult writes has
\* 0 <= margin <= totalVotes.
C8_MarginBound ==
  \A d \in SavedDocs : 0 <= d.margin /\ d.margin <= d.totalVotes

\* C9: alliance partition.  In every Result saveResult writes or
\* normalizeResult returns, the three alliance buckets add up to totalVotes.
C9_AlliancePartition ==
  /\ \A d \in SavedDocs :
       d.allianceVotes.bnp + d.allianceVotes.jamaat + d.allianceVotes.others = d.totalVotes
  /\ \A r \in ReadResults :
       r.allianceVotes.bnp + r.allianceVotes.jamaat + r.allianceVotes.others = r.totalVotes

\* C9 witness: a written Result, and the same Result read back, with votes
\* in two buckets.
C9_Witness ==
  /\ \E d \in SavedDocs : d.allianceVotes.bnp > 0 /\ d.allianceVotes.others > 0
  /\ \E r \in ReadResults : r.allianceVotes.bnp > 0 /\ r.allianceVotes.others > 0

\* C10: with every party in the party list, each alliance's seats,
\* leadingSeats and totalVotes are the sums of the party seat counts of its
\* member parties over the same Results (stated for Results in which some
\* party has votes).
C10_AllianceEqualsPartySums ==
  (SummaryWritten /\ FullPartyList /\ \A r \in ReadResults : SomeVotes(r)) =>
    LET asc == aggregateAllianceSeatCounts(getResults(results))
        partySum(a, f) ==
          SumSeq([k \in 1..Len(parties) |->
                    IF partyAlliance(parties[k]) = a
                    THEN SeatField(parties[k].id, f) ELSE 0])
    IN  \A i \in 1..Len(asc) :
          /\ asc[i].seats = partySum(asc[i].allianceId, "seats")
          /\ asc[i].leadingSeats = partySum(asc[i].allianceId, "leadingSeats")
          /\ asc[i].totalVotes = partySum(asc[i].allianceId, "totalVotes")

\* C11: determinism.  The summary and the alliance seat counts computed from
\* the stored Results do not depend on the order of the Results, of the keys
\* of each partyVotes map, or of the parties.
C11_Determinism ==
  (SummaryWritten /\ \A r \in ReadResults : SomeVotes(r)) =>
    LET rs == getResults(results)
    IN  \A ro \in Perms(rs) : \A ko \in KeyOrders(ro) : \A pl \in Perms(partyList) :
          /\ updateElectionSummary(ko, pl) = summary[1]
          /\ aggregateAllianceSeatCounts(ko) = aggregateAllianceSeatCounts(rs)

\* alliance data a stored document may carry
StoredAllianceVotes ==
  [bnp : 0..1, jamaat : 0..1, others : 0..1]

\* C12: normalizeResult never trusts persisted alliance data.  Whatever
\* winnerAllianceId and allianceVotes a stored document carries, the Result
\* read from it has the same two fields, recomputed from the normalized
\* partyVotes, winnerPartyId and status.
C12_AllianceDataRecomputed ==
  \A id \in DOMAIN results :
    \A w \in {Null, "bnp", "jamaat", "others"}, av \in StoredAllianceVotes :
      LET a == normalizeResult(results[id], id)
          b == normalizeResult([results[id] EXCEPT !.winnerAllianceId = w,
                                                   !.allianceVotes = av], id)
      IN  /\ b.winnerAllianceId = a.winnerAllianceId
          /\ b.allianceVotes = a.allianceVotes
          /\ a.allianceVotes = [al \in {"bnp", "jamaat", "others"} |-> VotesIn(a, al)]
          /\ a.winnerAllianceId =
               IF a.winnerPartyId # Null /\ a.status = "completed"
               THEN AllianceOf(a.winnerPartyId) ELSE Null

\* C12 witness: a stored document whose alliance data is stale, the Result
\* read from it carries other alliance votes and another winner alliance.
C12_Witness ==
  \E id \in DOMAIN results :
    LET a == normalizeResult(results[id], id)
    IN  /\ a.allianceVotes # results[id].allianceVotes
        /\ a.winnerAllianceId # results[id].winnerAllianceId

\* C13: in every Result saveResult writes or normalizeResult returns,
\* winnerAllianceId is null exactly when winnerPartyId is null and is
\* otherwise the alliance of winnerPartyId.
C13_WinnerAlliance ==
  /\ \A d \in SavedDocs :
       /\ (d.winnerAllianceId = Null) <=> (d.winnerPartyId = Null)
       /\ d.winnerPartyId # Null => d.winnerAllianceId = AllianceOf(d.winnerPartyId)
  /\ \A r \in ReadResults :
       /\ (r.winnerAllianceId = Null) <=> (r.winnerPartyId = Null)
       /\ r.winnerPartyId # Null => r.winnerAllianceId = AllianceOf(r.winnerPartyId)

\* C13 witness: a Result written with winner bnp in the bnp alliance and
\* read back the same.
C13_Witness ==
  /\ \E d \in SavedDocs : d.winnerPartyId = "bnp" /\ d.winnerAllianceId = "bnp"
  /\ \E r \in ReadResults : r.winnerPartyId = "bnp" /\ r.winnerAllianceId = "bnp"

\* C14: the votes and seats of every party outside the bnp and jamaat
\* alliances go to the others alliance and to no other, in the alliance
\* votes of each Result and in the alliance seat counts (stated for Results
\* of non-negative counts).
C14_OthersCatchAll ==
  (\A r \in ReadResults : NonNegative(r)) =>
    LET rs == getResults(results)
        asc == aggregateAllianceSeatCounts(rs)
    IN  /\ \A r \in ReadResults :
             \A al \in {"bnp", "jamaat", "others"} : r.allianceVotes[al] = VotesIn(r, al)
        /\ \A i \in 1..Len(asc) :
             /\ asc[i].totalVotes =
                  SumSeq([k \in 1..Len(rs) |-> VotesIn(rs[k], asc[i].allianceId)])
             /\ asc[i].seats =
                  Cardinality({ k \in 1..Len(rs) :
                     /\ rs[k].status = "completed"
                     /\ rs[k].winnerPartyId # Null
                     /\ AllianceOf(rs[k].winnerPartyId) = asc[i].allianceId })

\* the canonical ids a raw key can be stored under
CanonicalIds == { parties[k].id : k \in 1..Len(parties) }

\* the counts of the raw keys that normalize to party p
RawVotesOf(raw, p) ==
  SumSeq([i \in 1..Len(raw) |->
            IF normalizePartyKey(raw[i][1]) = p THEN raw[i][2] ELSE 0])

\* stored is raw with the counts of every party summed
Merged(raw, stored) ==
  /\ \A p \in CanonicalIds : Get0(stored, p) = RawVotesOf(raw, p)
  /\ SumSeq(Values(stored)) = SumSeq(Values(raw))

\* a step of the form specification: a submit writes the merged form tally,
\* and every stored document is read with its raw keys merged
C15_Step ==
  /\ (results' # results /\ activeId # <<>>) =>
       Merged(formPartyVotes(voteInputs, <<>>),
              results'[normalizeConstituencyId(activeId)].partyVotes)
  /\ \A id \in DOMAIN results' :
       Merged(results'[id].partyVotes, normalizeResult(results'[id], id).partyVotes)

\* C15: raw keys that normalize to the same party id are stored, by
\* saveResult and by normalizeResult, under that id with the sum of their
\* counts, so the normalized counts add up to the raw counts.
C15_MergedKeysSummed == [][C15_Step]_vars

\* C15 witness: the form holds one vote under the id and one under the name
\* of the same party, and the saved Result holds two votes for that party.
C15_Witness ==
  /\ outcome = "resolved"
  /\ Len(voteInputs) = 2
  /\ \A i \in 1..2 : normalizePartyKey(voteInputs[i].partyId) = "bnp" /\ voteInputs[i].votes = 1
  /\ \E d \in SavedDocs : d.partyVotes = << <<"bnp", 2>> >>

\* C16: in every alliance seat count the nested party list is ordered by
\* seats descending and, among equal seats, by totalVotes descending
\* (stated for Results in which some party has votes).
C16_NestedPartiesOrdered ==
  (\A r \in ReadResults : SomeVotes(r)) =>
  LET asc == aggregateAllianceSeatCounts(getResults(results))
  IN  \A i \in 1..Len(asc) :
        \A j, k \in 1..Len(asc[i].parties) :
          j < k =>
            \/ asc[i].parties[j].seats > asc[i].parties[k].seats
            \/ /\ asc[i].parties[j].seats = asc[i].parties[k].seats
               /\ asc[i].parties[j].totalVotes >= asc[i].parties[k].totalVotes

\* C17: division-by-zero safety.  Every percentage written or returned is a
\* number, and is 0 when its denominator is 0: marginPercentage of a saved
\* Result, votePercentage of every party and alliance, nationalTurnout, and
\* the party percentages calculatePercentage gives for a Result.
C17_NoDivisionByZero ==
  /\ \A d \in SavedDocs :
       /\ Finite(d.marginPercentage)
       /\ d.totalVotes = 0 => d.marginPercentage = Zero
  /\ \A r \in ReadResults : \A i \in 1..Len(r.partyVotes) :
       /\ Finite(calculatePercentage(r.partyVotes[i][2], r.totalVotes))
       /\ r.totalVotes = 0 => calculatePercentage(r.partyVotes[i][2], r.totalVotes) = Zero
  /\ SummaryWritten =>
       /\ Finite(summary[1].nationalTurnout)
       /\ \A i \in 1..Len(summary[1].partySeatCounts) :
            /\ Finite(summary[1].partySeatCounts[i].votePercentage)
            /\ summary[1].totalVotesCast = 0 =>
                 summary[1].partySeatCounts[i].votePercentage = Zero
  /\ LET rs == getResults(results)
         asc == aggregateAllianceSeatCounts(rs)
         totalVotesCast == SumSeq([k \in 1..Len(rs) |-> rs[k].totalVotes])
     IN  \A i \in 1..Len(asc) :
           /\ Finite(asc[i].votePercentage)
           /\ totalVotesCast = 0 => asc[i].votePercentage = Zero
           /\ \A j \in 1..Len(asc[i].parties) :
                /\ Finite(asc[i].parties[j].votePercentage)
                /\ totalVotesCast = 0 => asc[i].parties[j].votePercentage = Zero

\* C17 witness: a saved Result whose counts cancel out to zero total votes
\* with a margin above zero, and a summary that lists a party while no vote
\* was cast.
C17_Witness ==
  /\ \E d \in SavedDocs : d.totalVotes = 0 /\ d.margin > 0
  /\ SummaryWritten
  /\ summary[1].totalVotesCast = 0
  /\ summary[1].partySeatCounts # <<>>

\* C18: derived state is recomputed from scratch.  After every saveResult
\* that resolved, the stored summary is the aggregation of the results
\* collection as it stands.
C18_SummaryFromScratch ==
  outcome = "resolved" =>
    summary = <<updateElectionSummary(getResults(results), partyList)>>

\* C18 witness: two constituencies saved, one declared and one still
\* counting, and the summary shows exactly that.
C18_Witness ==
  /\ outcome = "resolved"
  /\ Cardinality(DOMAIN results) = 2
  /\ \E id \in DOMAIN results : results[id].status = "partial" /\ results[id].totalVotes > 0
  /\ summary[1].declaredSeats = 1


\* C19: once two or more interleaved saveResult calls for different
\* constituencies have all resolved, the stored summary is the aggregation
\* of the result documents then in the collection.
C19_ConcurrentSavesConverge ==
  ( /\ Len(calls) >= 2
    /\ \A k \in 1..Len(calls) : calls[k].pc = "resolved"
    /\ \A j, k \in 1..Len(calls) : j # k => calls[j].actualDocId # calls[k].actualDocId )
  => summary = <<updateElectionSummary(getResults(results), partyList)>>

\* C20: whenever the hook is not loading and reports isAuthenticated, the
\* user it holds passed the isAdmin check and adminUser is the admin record
\* of that same user.
C20_AuthenticatedIsAdmin ==
  (loading = FALSE /\ user # Null /\ adminUser # <<>>) =>
    /\ isAdmin(user)
    /\ adminUser[1].uid = user

\* a callback of a user without admin access waits for its isAdmin check
DeniedPending ==
  \E k \in 1..Len(callbacks) :
    callbacks[k].pc = "isAdmin" /\ ~isAdmin(callbacks[k].firebaseUser)

\* the hook shows the rejection
DeniedSettled ==
  /\ user = Null
  /\ adminUser = <<>>
  /\ loading = FALSE
  /\ error = "You do not have admin access"

\* C21: when a user without an admin record signs in, the hook signs the
\* user out and eventually settles with user = null, adminUser = null,
\* loading = false and error = 'You do not have admin access'.
C21_DeniedSettles == DeniedPending ~> DeniedSettled

\* the listeners registered after a step
RegisteredAfter == { l \in {"primary", "fallback"} : listeners'[l].registered }

\* a step of the subscription: the hand-over, at most one listener, null for
\* a constituency without document, nothing left after unsubscribe
C22_Step ==
  /\ Cardinality(RegisteredAfter) <= 1
  /\ (primarySnapshot /\ normalizeConstituencyId(subId) \notin DOMAIN results) =>
       RegisteredAfter = {"fallback"}
  /\ (fallbackSnapshot /\ getResultByConstituency(results, subId) = <<>>) =>
       (constituencyResult' = <<>> /\ resultLoading' = FALSE)
  /\ subState' = "closed" => RegisteredAfter = {}
  /\ (subState = "closed" /\ subState' = "closed") =>
       (~primarySnapshot /\ ~fallbackSnapshot
          /\ UNCHANGED <<constituencyResult, resultLoading>>)

\* C22: subscribeToResult hands off between its listeners cleanly: when the
\* normalized-id document does not exist the first listener is stopped and
\* the original-format listener takes over, at most one of the two is
\* registered after any step, the subscriber gets callback(null) when
\* neither document exists, and after the returned unsubscribe no listener
\* is registered and the callback is not invoked again.
C22_ListenerHandOff == [][C22_Step]_vars

\* C22 witness: the subscription was closed after the original-format
\* listener had taken over and reported that there is no document.
C22_Witness ==
  /\ subState = "closed"
  /\ unsubscribeRef = "fallback"
  /\ listeners["fallback"].seen = << <<>> >>
  /\ constituencyResult = <<>>
  /\ resultLoading = FALSE

\* the subscription is open and a result is stored under its normalized id
SavedUnderNormalizedId ==
  /\ subState = "open"
  /\ normalizeConstituencyId(subId) \in DOMAIN results

\* the subscriber holds the stored result (or the subscription has ended)
DeliveredToSubscriber ==
  \/ subState # "open"
  \/ normalizeConstituencyId(subId) \notin DOMAIN results
  \/ constituencyResult =
       <<normalizeResult(results[normalizeConstituencyId(subId)],
                         normalizeConstituencyId(subId))>>

\* C23: a live subscription delivers every result saved for its
\* constituency: on a project that had no result document when the
\* subscription started, once saveResult has created one under the
\* normalized id the callback is eventually invoked with that Result.
C23_SavedResultDelivered == SavedUnderNormalizedId ~> DeliveredToSubscriber

\* a step of the results feed: after a snapshot was applied the results
\* shown lose no document, and a cleaned-up hook is not written
C24_Step ==
  /\ feedListener.seen # <<>> => Len(resultsState') >= Len(resultsState)
  /\ feedState = "cleaned" => UNCHANGED <<resultsState, resultsLoading>>

\* C24: in useResults, once a subscription snapshot has been applied the
\* results state never goes back to an older state of the collection (a
\* late initial fetch does not overwrite a newer snapshot), and nothing is
\* written to the state after the cleanup of the hook.
C24_NoRegression == [][C24_Step]_vars

\* a step of the spellings specification: one document per constituency
\* after it, and a save is what every spelling of the constituency reads
C25_Step ==
  /\ \A a, b \in DOMAIN results' :
       normalizeConstituencyId(a) = normalizeConstituencyId(b) => a = b
  /\ \A c \in SpellingIds, t \in TalliesOver(AggregateKeys, 0..MaxVote), st \in Statuses :
       saveResult([constituencyId |-> c, partyVotes |-> t, status |-> st]) =>
         \A q \in SpellingIds :
           LET read == getResultByConstituency(results', q)
           IN  /\ read # <<>>
               /\ read[1].partyVotes = normalizePartyVotes(t)
               /\ read[1].status = st

\* C25: saveResult avoids duplicate result documents: from a collection
\* with at most one document per constituency (a legacy original-format id
\* and its normalized id being the same constituency), after any saveResult
\* calls with any spelling of the id there is at most one document per
\* constituency and getResultByConstituency returns the tally saved last.
C25_NoDuplicateDocuments == [][C25_Step]_vars

\* call k is the only call made for its constituency
OnlyCallFor(k) ==
  \A j \in 1..Len(calls) :
    j # k => normalizeConstituencyId(calls[j].payload.constituencyId)
               # normalizeConstituencyId(calls[k].payload.constituencyId)

\* C26: saveResult is all-or-nothing: when it rejects, the result document
\* of the constituency is unchanged (on a fresh project: there is none),
\* and when it resolves, the result document and the summary both reflect
\* the new tally.
C26_AllOrNothing ==
  \A k \in 1..Len(calls) :
    /\ (calls[k].pc = "rejected" /\ OnlyCallFor(k)) =>
         getResultByConstituency(results, calls[k].payload.constituencyId) = <<>>
    /\ (calls[k].pc = "resolved" /\ Len(calls) = 1) =>
         /\ calls[k].actualDocId \in DOMAIN results
         /\ results[calls[k].actualDocId] =
              resultDoc(calls[k].actualDocId, calls[k].payload.partyVotes,
                        calls[k].payload.status)
         /\ summary = <<updateElectionSummary(getResults(results), partyList)>>

\* C27: news slugs are unique: after any interleaving of createNews and
\* updateNews calls no two news documents have the same slug.
C27_UniqueSlugs ==
  \A i, j \in 1..Len(news) : i # j => news[i].slug # news[j].slug

\* a cached list exists and less than 300000 ms have passed since its
\* timestamp
FreshCache == cache.parties # <<>> /\ now - cache.partiesTimestamp < 300000

\* a step of the cache specification
C28_Step ==
  /\ getPartiesCall =>
       IF FreshCache
       THEN /\ partiesReturned' = <<[parties |-> cache.parties[1], cached |-> TRUE]>>
            /\ UNCHANGED <<cache, partyReads>>
       ELSE /\ Len(partyReads') = Len(partyReads) + 1
            /\ UNCHANGED <<cache, partiesReturned>>
  /\ \A k \in 1..Len(partyReads) :
       getPartiesResolved(k) =>
         /\ cache'.parties = <<partyList>>
         /\ cache'.partiesTimestamp = partyReads[k].now
         /\ partiesReturned' = <<[parties |-> partyList, cached |-> FALSE]>>
  /\ partiesSnapshot =>
       (cache'.parties = <<partyList>> /\ cache'.partiesTimestamp = now)
  /\ results' # results =>
       /\ FreshCache => cache' = cache
       /\ partiesReturned'[1].cached = FreshCache
       /\ cache'.parties # <<>>

\* C28: getParties returns the cached list without reading Firestore
\* exactly when a cached list exists and less than CACHE_DURATION
\* (300000 ms) has passed since the cache timestamp; otherwise it reads
\* Firestore, replaces the cached list and sets the timestamp; every
\* subscribeToParties snapshot replaces the list and refreshes the
\* timestamp; a saveResult write does not invalidate the cache.
C28_PartiesCache == [][C28_Step]_vars

\* C28 witness: one millisecond before its expiry the cache, which no
\* longer matches the edited parties collection, was served, after a
\* result had been saved.
C28_Witness ==
  /\ cache.parties # <<>>
  /\ cache.parties # <<partyList>>
  /\ now - cache.partiesTimestamp = CACHE_DURATION - 1
  /\ partiesReturned = <<[parties |-> cache.parties[1], cached |-> TRUE]>>
  /\ results # <<>>

\* C29: for the Results read from the collection, the seats of the three
\* alliances returned by aggregateAllianceSeatCounts add up to the
\* declaredSeats updateElectionSummary computes from the same Results.
C29_AllianceSeatsAreDeclaredSeats ==
  LET rs == getResults(results)
      asc == aggregateAllianceSeatCounts(rs)
  IN  SumSeq([i \in 1..Len(asc) |-> asc[i].seats])
        = updateElectionSummary(rs, partyList).declaredSeats

\* C29 witness: two seats are declared, one for each of two alliances, in
\* the summary saveResult wrote.
C29_Witness ==
  LET asc == aggregateAllianceSeatCounts(getResults(results))
  IN  /\ summary # <<>>
      /\ summary[1].declaredSeats = 2
      /\ asc[1].seats = 1
      /\ asc[2].seats = 1

\* the sum of a field over the nested party list of an AllianceSeatCount
NestedSum(a, f) == SumSeq([k \in 1..Len(a.parties) |-> a.parties[k][f]])

\* C30: in every AllianceSeatCount returned by aggregateAllianceSeatCounts
\* the alliance's seats, leadingSeats and totalVotes are the sums of the
\* same field over its nested parties list, and every nested party belongs
\* to that alliance.
C30_NestedPartiesAddUp ==
  LET asc == aggregateAllianceSeatCounts(getResults(results))
  IN  \A i \in 1..Len(asc) :
        /\ asc[i].seats = NestedSum(asc[i], "seats")
        /\ asc[i].leadingSeats = NestedSum(asc[i], "leadingSeats")
        /\ asc[i].totalVotes = NestedSum(asc[i], "totalVotes")
        /\ \A k \in 1..Len(asc[i].parties) :
             partyAlliance(getPartyById(asc[i].parties[k].partyId)[1]) = asc[i].allianceId

\* C30 witness: the bnp alliance holds a seat, and the others alliance lists
\* two parties, one with a seat and one with votes only.
C30_Witness ==
  LET asc == aggregateAllianceSeatCounts(getResults(results))
      others == asc[3]
  IN  /\ asc[1].seats = 1
      /\ Len(asc[1].parties) = 1
      /\ Len(others.parties) = 2
      /\ others.seats = 1
      /\ others.parties[1].seats = 1
      /\ others.parties[2].seats = 0
      /\ others.parties[2].totalVotes > 0

============================================================================
